---- MODULE Spec2Model ----
(***************************************************************************)
(* pg-query-composer: the relation loader (src/relations/loader.ts).       *)
(*                                                                         *)
(* createRelationLoader builds a DataLoader (dataloader ^2.2.0) around a   *)
(* batch function that builds one IN-query per batch, calls the executor   *)
(* and scatters the rows by key.  The model follows one loader instance:   *)
(* its cache map, its batches, the promises it handed out and the          *)
(* executor calls it made.  loadRelation is the same loader driven by a    *)
(* list of parent records.                                                 *)
(*                                                                         *)
(* Further specifications follow several loader instances side by side,    *)
(* the model registry (src/relations/define.ts) and the composers          *)
(* (src/relations/include.ts, src/core/query-composer.ts) with their        *)
(* tracked includes, filter callbacks, include queries and clones.          *)
(* The last ones follow groupByKey on its own, where(), or() and not() on  *)
(* a strict and a non-strict composer, loadRelation over records whose key  *)
(* fields hold numbers, null or nothing, and the loader under fairness.     *)
(***************************************************************************)
EXTENDS Integers, Sequences, FiniteSets, TLC

VARIABLES relationName, cacheMap, batches, promises, calls, manyCalls, lr,
          loaders,
          modelRegistry, models, registryLog,
          composers, arrays, held, cbCalls, queryRuns, thrown, includeLog,
          group, fq

\* the loader the model follows, and what loadMany and loadRelation add to it
loaderVars == <<relationName, cacheMap, batches, promises, calls, manyCalls, lr>>

\* the loader instances made side by side (createRelationLoader called more
\* than once, createAllRelationLoaders)
instanceVars == <<loaders>>

\* the model registry of relations/define.ts: the Map, the model objects
\* defineModel created (models[ref] is the object with reference ref), and
\* the calls made so far
registryVars == <<modelRegistry, models, registryLog>>

\* the composers of relations/include.ts and core/query-composer.ts as
\* objects: composers[ref] is a composer, arrays[ref] one of the arrays the
\* composers and their callers hold; held are the lists getIncludes()
\* returned, cbCalls the filter callbacks called so far, queryRuns the
\* getIncludeQueries() calls, thrown what the latest call threw, and
\* includeLog[ref] the successful include() calls of a composer
composeVars == <<composers, arrays, held, cbCalls, queryRuns, thrown, includeLog>>

\* one groupByKey call: the list given, the list as it is now, the key
\* column and, once the call is done, the Map returned
groupVars == <<group>>

\* two composers, a strict and a non-strict one, under where(), or() and
\* not(): the composers, what the last call threw and the calls made
filterVars == <<fq>>

vars == <<loaderVars, instanceVars, registryVars, composeVars, groupVars, filterVars>>

(***************************************************************************)
(* Bounds of the exploration.                                              *)
(***************************************************************************)
\* load() calls made on the loader, loadMany and loadRelation included
MaxLoads == 3
\* rows in one executor result
MaxRows == 3
\* parent records handed to loadRelation
MaxRecords == 3
\* loader instances made by createRelationLoader calls
MaxLoaders == 2
\* load() calls made on the loader instances that live side by side
MaxInstanceLoads == 2
\* rows in one executor result of those instances
MaxInstanceRows == 1
\* defineModel and clearModelRegistry calls
MaxRegistryOps == 3
\* composers the caller makes (createModelQuery, createQueryComposer, clone)
MaxComposers == 2
\* successful include() calls on one composer
MaxIncludes == 2
\* conditions where() adds to one composer
MaxConditions == 1
\* lists the caller takes with getIncludes()
MaxHeld == 1
\* getIncludeQueries() calls
MaxQueryRuns == 1
\* rows handed to one groupByKey call
MaxGroupRows == 3
\* keys of one loadMany() in the progress specification
MaxLiveKeys == 2
\* rows of one executor result in the progress specification
MaxLiveRows == 1
\* entries of one filter object, filter objects of one or() call, and calls
\* of where(), or() and not()
MaxEntries == 2
MaxFilterCalls == 2
\* parent records and result rows where the key fields hold numbers, null or
\* nothing
MaxKeyedRecords == 2
MaxKeyRows == 2

(***************************************************************************)
(* JavaScript values.  A primitive is its type and its text, so that the   *)
(* string "1" and the number 1 are different values with the same text.    *)
(***************************************************************************)
S(x) == [t |-> "string", v |-> x]
N(x) == [t |-> "number", v |-> x]

\* null and undefined; String(null) is 'null', String(undefined) 'undefined'
NullValue == [t |-> "null", v |-> "null"]
UndefinedValue == [t |-> "undefined", v |-> "undefined"]

\* String(value): the value's text, as a string
String(value) == S(value.v)

\* record[field]: undefined when the record has no such field
Get(record, field) == IF field \in DOMAIN record THEN record[field] ELSE UndefinedValue

\* the keys callers pass to load(): DataLoader<string, ...>
LoadKeys == {S("l1"), S("l2")}

\* the parent records loadRelation is given: their key fields hold strings or
\* the number 1
ParentRecords == [id : {S("l1"), S("l2"), N("1")}, league_id : {S("l1"), N("1")}]

\* the rows of the target table: under either batch key column (id or
\* league_id) two rows share the key l1 and one row has the key l2
Rows ==
  {[id |-> S("l1"), league_id |-> S("l1")],
   [id |-> S("l2"), league_id |-> S("l1")],
   [id |-> S("l1"), league_id |-> S("l2")]}

\* the sequences of at most n elements of a set
RECURSIVE SeqsUpTo(_, _)
SeqsUpTo(set, n) ==
  IF n = 0 THEN {<<>>}
  ELSE LET shorter == SeqsUpTo(set, n - 1)
       IN shorter \cup
          {Append(s, x) : s \in {q \in shorter : Len(q) = n - 1}, x \in set}

Distinct(s) == \A i, j \in 1..Len(s) : s[i] = s[j] => i = j

\* what one executor call can resolve to: a result set of the target table,
\* any rows in any order

ExecutorResults == {s \in SeqsUpTo(Rows, MaxRows) : Distinct(s)}

\* the executor results of the progress specification
LiveResults == {s \in ExecutorResults : Len(s) <= MaxLiveRows}

(***************************************************************************)
(* The model and its relations (as in tests/relations/loader.test.ts and   *)
(* the examples of relations/types.ts).                                    *)
(***************************************************************************)
Col(c) == [table |-> "", column |-> c]
Qualified(t, c) == [table |-> t, column |-> c]

RelationNames == {"league", "profile", "posts", "teams"}

Relation(name) ==
  CASE name = "league" ->
         [type |-> "belongsTo", target |-> "leagues",
          foreignKey |-> "league_id", primaryKey |-> "id"]
    [] name = "profile" ->
         [type |-> "hasOne", target |-> "profiles",
          foreignKey |-> "league_id", primaryKey |-> "id"]
    [] name = "posts" ->
         [type |-> "hasMany", target |-> "posts",
          foreignKey |-> "league_id", primaryKey |-> "id"]
    [] name = "teams" ->
         [type |-> "hasManyThrough", target |-> "teams", through |-> "league_teams",
          foreignKey |-> "league_id", throughForeignKey |-> "team_id",
          primaryKey |-> "id", throughPrimaryKey |-> "id"]

Model ==
  [name |-> "League", table |-> "leagues", primaryKey |-> "id",
   schema |-> {"id", "name", "status"},
   relations |-> [declared |-> TRUE, keys |-> RelationNames]]

\* a model defined without relations: model.relations is undefined
Country ==
  [name |-> "Country", table |-> "countries", primaryKey |-> "id",
   schema |-> {"id", "name", "code"},
   relations |-> [declared |-> FALSE, keys |-> {}]]

\* the property names every object literal inherits from Object.prototype
ObjectPrototypeKeys == {"constructor", "toString"}

\* what reading a property of a function (Object.prototype.constructor,
\* Object.prototype.toString) or of undefined-valued config gives: undefined
NoRelation ==
  [type |-> "undefined", target |-> "undefined",
   foreignKey |-> "undefined", primaryKey |-> "undefined"]

\* relationName in model.relations: own keys and inherited ones
In(name, object) == name \in object.keys \cup ObjectPrototypeKeys

\* hasRelation(model, relationName)
hasRelation(model, name) == model.relations.declared /\ In(name, model.relations)

\* getRelation(model, relationName): model.relations?.[relationName]
getRelation(model, name) ==
  IF model.relations.declared /\ name \in model.relations.keys THEN Relation(name)
  ELSE NoRelation

(***************************************************************************)
(* QueryComposer, as far as the batch queries use it (core/query-composer). *)
(***************************************************************************)
DefaultColumns == {"id", "created_at", "updated_at", "deleted_at"}

\* constructor: the whitelist is schema columns, extraColumns and the defaults
QueryComposer(schema, table, strict, extraColumns) ==
  [table |-> table, strict |-> strict,
   whitelist |-> {Col(c) : c \in schema \cup extraColumns \cup DefaultColumns},
   conditions |-> <<>>, orGroups |-> <<>>, notConditions |-> <<>>, joins |-> <<>>]

\* validateColumn: whitelist.includes(column)
validateColumn(qc, column) == column \in qc.whitelist

\* whereIn(column, values) is where({column__in: values}); a non-strict composer
\* skips a filter whose column is not whitelisted (a strict one throws, and the
\* loader's composers are all non-strict)
whereIn(qc, column, values) ==
  IF validateColumn(qc, column)
  THEN [qc EXCEPT !.conditions =
          Append(@, [column |-> column, operator |-> "in", value |-> values])]
  ELSE qc

\* join(table, on): an inner join
join(qc, table, on) == [qc EXCEPT !.joins = Append(@, [table |-> table, on |-> on])]

\* the parameter values of the conditions, in order (applyConditions)
RECURSIVE ConditionValues(_)
ConditionValues(conditions) ==
  IF conditions = <<>> THEN <<>>
  ELSE (IF Head(conditions).operator = "in" THEN Head(conditions).value
        ELSE <<Head(conditions).value>>)
       \o ConditionValues(Tail(conditions))

\* the comparison an operator handler writes (operators.ts)
OperatorText(operator) ==
  CASE operator = "exact" -> "="
    [] operator = "notexact" -> "!="
    [] operator = "gt" -> ">"
    [] operator = "gte" -> ">="
    [] operator = "lt" -> "<"
    [] operator = "lte" -> "<="

\* what a condition adds to the WHERE clause
ConditionText(cond) ==
  [column |-> cond.column,
   operator |-> IF cond.operator # "in" THEN OperatorText(cond.operator)
                ELSE IF cond.value = <<>> THEN "FALSE"
                ELSE "IN",
   placeholders |-> IF cond.operator # "in" THEN 1 ELSE Len(cond.value)]

\* the parameter values of the OR groups, in order (applyConditions)
RECURSIVE GroupValues(_)
GroupValues(groups) ==
  IF groups = <<>> THEN <<>>
  ELSE ConditionValues(Head(groups).conditions) \o GroupValues(Tail(groups))

\* toParam(): the parameterized SELECT; the AND conditions, then the OR
\* groups, then the NOT conditions
toParam(qc) ==
  [from |-> qc.table, joins |-> qc.joins,
   where |-> [i \in 1..Len(qc.conditions) |-> ConditionText(qc.conditions[i])],
   or |-> [g \in 1..Len(qc.orGroups) |->
             [i \in 1..Len(qc.orGroups[g].conditions) |->
                ConditionText(qc.orGroups[g].conditions[i])]],
   not |-> [i \in 1..Len(qc.notConditions) |-> ConditionText(qc.notConditions[i])],
   values |-> ConditionValues(qc.conditions) \o GroupValues(qc.orGroups)
                \o ConditionValues(qc.notConditions)]

(***************************************************************************)
(* where(), or() and not() with filter objects.  A filter object is the     *)
(* list of its entries in insertion order; a key is the list of its parts   *)
(* around the separator '__': <<"status">> is 'status', <<"status", "gt">>  *)
(* is 'status__gt'.                                                         *)
(***************************************************************************)
VALID_OPERATORS == {"exact", "notexact", "gt", "gte", "lt", "lte", "in"}

\* validateOperator: VALID_OPERATORS.includes(operator)
validateOperator(qc, operator) == operator \in VALID_OPERATORS

\* parseFieldOperator(key): the column and the operator ('exact' when the key
\* names none), or the error thrown: validateColumn throws on a strict
\* composer and parseFieldOperator itself on a non-strict one
parseFieldOperator(qc, key) ==
  LET column == Col(key[1])
      operator == IF Len(key) >= 2 /\ key[2] # "" THEN key[2] ELSE "exact"
  IN IF ~validateColumn(qc, column)
     THEN [thrown |-> "InvalidColumnError", column |-> column, operator |-> operator]
     ELSE IF ~validateOperator(qc, operator)
     THEN [thrown |-> "InvalidOperatorError", column |-> column, operator |-> operator]
     ELSE [thrown |-> "none", column |-> column, operator |-> operator]

\* a loop that pushes every entry, valid or not
RECURSIVE pushEntriesAll(_, _, _)
pushEntriesAll(qc, list, entries) ==
  IF entries = <<>> THEN [list |-> list, thrown |-> "none"]
  ELSE LET parsed == parseFieldOperator(qc, Head(entries).key)
       IN pushEntriesAll(qc,
            Append(list, [column |-> parsed.column, operator |-> "exact",
                          value |-> Head(entries).value]),
            Tail(entries))

\* the loop of where(), or() and not() over Object.entries(filters): an
\* undefined value is skipped, a valid entry is pushed onto the list at once,
\* an invalid one ends the call with its error on a strict composer and is
\* skipped on a non-strict one
RECURSIVE pushEntries(_, _, _)
pushEntries(qc, list, entries) ==
  IF entries = <<>> THEN [list |-> list, thrown |-> "none"]
  ELSE LET parsed == parseFieldOperator(qc, Head(entries).key)
       IN IF Head(entries).value = UndefinedValue
          THEN pushEntries(qc, list, Tail(entries))
          ELSE IF parsed.thrown = "none"
          THEN pushEntries(qc,
                 Append(list, [column |-> parsed.column, operator |-> parsed.operator,
                               value |-> Head(entries).value]),
                 Tail(entries))
          ELSE IF qc.strict THEN [list |-> list, thrown |-> parsed.thrown]
          ELSE pushEntries(qc, list, Tail(entries))

\* where(filters): the list is this.conditions itself
whereFilters(qc, filters) ==
  LET r == pushEntries(qc, qc.conditions, filters)
  IN [qc |-> [qc EXCEPT !.conditions = r.list], thrown |-> r.thrown]

\* the entries of the filter objects of an or() call, in order
RECURSIVE Entries(_)
Entries(filterGroups) ==
  IF filterGroups = <<>> THEN <<>>
  ELSE Head(filterGroups) \o Entries(Tail(filterGroups))

\* or(filterGroups): a local list, pushed onto this.orGroups as one group
\* after the loops if it is not empty
orFilters(qc, filterGroups) ==
  LET r == pushEntries(qc, <<>>, Entries(filterGroups))
  IN IF r.thrown # "none" THEN [qc |-> qc, thrown |-> r.thrown]
     ELSE IF r.list # <<>>
     THEN [qc |-> [qc EXCEPT !.orGroups = Append(@, [conditions |-> r.list])],
           thrown |-> "none"]
     ELSE [qc |-> qc, thrown |-> "none"]

\* not(filters): the list is this.notConditions itself
notFilters(qc, filters) ==
  LET r == pushEntries(qc, qc.notConditions, filters)
  IN [qc |-> [qc EXCEPT !.notConditions = r.list], thrown |-> r.thrown]

\* createQueryComposer(schema, 'leagues') and createQueryComposer(schema,
\* 'leagues', {strict: false}), no call made yet
NoFilterCalls ==
  [qcs |-> <<QueryComposer(Model.schema, Model.table, TRUE, {}),
             QueryComposer(Model.schema, Model.table, FALSE, {})>>,
   thrown |-> "none",
   log |-> <<>>]

(***************************************************************************)
(* The batch query generators (loader.ts).                                 *)
(***************************************************************************)
\* a belongsTo generator that filters on the foreign key, as hasOne does
batchLoadBelongsToByForeignKey(model, name, keys) ==
  LET relation == getRelation(model, name)
      qc == QueryComposer(model.schema, relation.target, FALSE, {relation.foreignKey})
  IN [query |-> toParam(whereIn(qc, Col(relation.foreignKey), keys)),
      batchKey |-> relation.foreignKey, isSingle |-> TRUE]

batchLoadBelongsTo(model, name, keys) ==
  LET relation == getRelation(model, name)
      qc == QueryComposer(model.schema, relation.target, FALSE, {relation.primaryKey})
  IN [query |-> toParam(whereIn(qc, Col(relation.primaryKey), keys)),
      batchKey |-> relation.primaryKey, isSingle |-> TRUE]

batchLoadHasOne(model, name, keys) ==
  LET relation == getRelation(model, name)
      qc == QueryComposer(model.schema, relation.target, FALSE, {relation.foreignKey})
  IN [query |-> toParam(whereIn(qc, Col(relation.foreignKey), keys)),
      batchKey |-> relation.foreignKey, isSingle |-> TRUE]

batchLoadHasMany(model, name, keys) ==
  LET relation == getRelation(model, name)
      qc == QueryComposer(model.schema, relation.target, FALSE, {relation.foreignKey})
  IN [query |-> toParam(whereIn(qc, Col(relation.foreignKey), keys)),
      batchKey |-> relation.foreignKey, isSingle |-> FALSE]

batchLoadHasManyThrough(model, name, keys) ==
  LET relation == getRelation(model, name)
      qc == QueryComposer(model.schema, relation.target, FALSE,
                          {relation.foreignKey, relation.throughForeignKey})
      joined == join(qc, relation.through,
                     <<Qualified(relation.target, relation.throughPrimaryKey),
                       Qualified(relation.through, relation.throughForeignKey)>>)
  IN [query |-> toParam(whereIn(joined, Qualified(relation.through, relation.foreignKey), keys)),
      batchKey |-> relation.foreignKey, isSingle |-> FALSE]

getBatchLoadConfig(model, name, keys) ==
  LET relation == getRelation(model, name)
  IN CASE relation.type = "belongsTo" -> batchLoadBelongsTo(model, name, keys)
       [] relation.type = "hasOne" -> batchLoadHasOne(model, name, keys)
       [] relation.type = "hasMany" -> batchLoadHasMany(model, name, keys)
       [] relation.type = "hasManyThrough" -> batchLoadHasManyThrough(model, name, keys)

(***************************************************************************)
(* groupByKey and the batch function of createRelationLoader.              *)
(***************************************************************************)
\* a Map: a function whose domain is the keys set so far
EmptyMap == [k \in {} |-> <<>>]

\* grouped.get(keyValue) || []
MapGetOrEmpty(map, keyValue) == IF keyValue \in DOMAIN map THEN map[keyValue] ELSE <<>>

\* a groupByKey round that replaces the bucket instead of pushing onto it
groupStepOverwrite(grouped, item, key) ==
  [k \in DOMAIN grouped \cup {item[key]} |->
     IF k = item[key] THEN <<item>> ELSE grouped[k]]

\* one round of the loop of groupByKey: push the item on its key's bucket
groupStep(grouped, item, key) ==
  LET keyValue == item[key]
      existing == Append(MapGetOrEmpty(grouped, keyValue), item)
  IN [k \in DOMAIN grouped \cup {keyValue} |->
        IF k = keyValue THEN existing ELSE grouped[k]]

RECURSIVE groupFrom(_, _, _)
groupFrom(grouped, items, key) ==
  IF items = <<>> THEN grouped
  ELSE groupFrom(groupStep(grouped, Head(items), key), Tail(items), key)

groupByKey(items, key) == groupFrom(EmptyMap, items, key)

\* [...new Set(keys)]: the distinct keys, in order of first occurrence
RECURSIVE uniqueKeys(_)
uniqueKeys(keys) ==
  IF keys = <<>> THEN <<>>
  ELSE LET front == uniqueKeys(SubSeq(keys, 1, Len(keys) - 1))
           last == keys[Len(keys)]
       IN IF \E i \in 1..Len(front) : front[i] = last THEN front ELSE Append(front, last)

\* the batch function up to its await: the config whose query goes to the executor
batchConfig(name, keys) == getBatchLoadConfig(Model, name, uniqueKeys(keys))

\* a batch function that returns the buckets in the order the result brings
\* them ([...grouped.values()]) instead of the order of the keys
batchValuesInResultOrder(keys, results, batchKey) ==
  LET grouped == groupByKey(results, batchKey)
      order == uniqueKeys([i \in 1..Len(results) |-> results[i][batchKey]])
  IN [i \in 1..Len(keys) |-> IF i <= Len(order) THEN grouped[order[i]] ELSE <<>>]

\* the batch function after its await: keys.map((key) => grouped.get(key) || [])
batchValues(keys, results, batchKey) ==
  LET grouped == groupByKey(results, batchKey)
  IN [i \in 1..Len(keys) |-> MapGetOrEmpty(grouped, keys[i])]

(***************************************************************************)
(* DataLoader (dataloader ^2.2.0), as createRelationLoader configures it:  *)
(* caching on, cacheKeyFn = String, no maxBatchSize, the default schedule  *)
(* (the batch is dispatched after the turn that opened it).                *)
(*                                                                         *)
(* promises[p] is the promise the p-th load() returned.  A cache miss owns *)
(* a callback of its batch; a cache hit (cached # 0) is resolved with the  *)
(* cached promise when its batch resolves its cache hits (linked).         *)
(* calls[c] is the c-th executor call; the error of call c is c.           *)
(***************************************************************************)
\* cacheKeyFn: (key) => String(key)
cacheKeyFn(key) == String(key)

\* the loader's own state, threaded through the synchronous calls of one turn
Loader == [cacheMap |-> cacheMap, batches |-> batches, promises |-> promises]

NewBatch == [hasDispatched |-> FALSE, keys |-> <<>>, callbacks |-> <<>>, cacheHits |-> <<>>]

\* a getCurrentBatch that never reuses the open batch (no coalescing)
getCurrentBatchAlwaysNew(L) == [L EXCEPT !.batches = Append(@, NewBatch)]

\* a getCurrentBatch that keeps using the last batch after its dispatch
getCurrentBatchKeepsDispatched(L) ==
  IF L.batches # <<>> THEN L ELSE [L EXCEPT !.batches = Append(@, NewBatch)]

\* getCurrentBatch: the open batch, or a new one whose dispatch is scheduled
getCurrentBatch(L) ==
  IF L.batches # <<>> /\ ~L.batches[Len(L.batches)].hasDispatched
  THEN L
  ELSE [L EXCEPT !.batches = Append(@, NewBatch)]

\* cacheMap.set(cacheKey, promise)
MapSet(map, k, x) == [j \in DOMAIN map \cup {k} |-> IF j = k THEN x ELSE map[j]]

\* cacheMap.delete(cacheKey)
MapDelete(map, k) == [j \in DOMAIN map \ {k} |-> map[j]]

\* the turn a load() is made in: dispatchBatch runs when a turn is over
CurrentTurn(L) == 1 + Cardinality({b \in 1..Len(L.batches) : L.batches[b].hasDispatched})

NewPromise(L, key, cached) ==
  [key |-> key, batch |-> Len(L.batches), turn |-> CurrentTurn(L),
   cached |-> cached, linked |-> FALSE,
   st |-> "pending", value |-> <<>>, reason |-> 0]

\* the cache-hit branch of load(): a promise resolved with the cached one
\* when the batch resolves its cache hits
loadCached(L, key) ==
  LET b == Len(L.batches)
      p == Len(L.promises) + 1
  IN [L EXCEPT !.batches[b].cacheHits = Append(@, p),
               !.promises = Append(@, NewPromise(L, key, L.cacheMap[cacheKeyFn(key)]))]

\* a cache-miss branch that forgets to cache the promise
loadMissNoCache(L, key) ==
  LET b == Len(L.batches)
      p == Len(L.promises) + 1
  IN [L EXCEPT !.batches[b].keys = Append(@, key),
               !.batches[b].callbacks = Append(@, p),
               !.promises = Append(@, NewPromise(L, key, 0))]

\* the cache-miss branch of load(): enqueue the key, cache the promise
loadMiss(L, key) ==
  LET b == Len(L.batches)
      p == Len(L.promises) + 1
  IN [L EXCEPT !.batches[b].keys = Append(@, key),
               !.batches[b].callbacks = Append(@, p),
               !.promises = Append(@, NewPromise(L, key, 0)),
               !.cacheMap = MapSet(@, cacheKeyFn(key), p)]

\* DataLoader.load(key)
load(L, key) ==
  LET L1 == getCurrentBatch(L)
  IN IF cacheKeyFn(key) \in DOMAIN L1.cacheMap THEN loadCached(L1, key) ELSE loadMiss(L1, key)

\* consecutive load() calls of one synchronous stretch
RECURSIVE loadAll(_, _)
loadAll(L, keys) == IF keys = <<>> THEN L ELSE loadAll(load(L, Head(keys)), Tail(keys))

\* a batch that never runs the resolvers of its cache hits
resolveCacheHitsNever(P, batch) == P

\* resolveCacheHits(batch)
resolveCacheHits(P, batch) ==
  [p \in 1..Len(P) |->
     IF \E i \in 1..Len(batch.cacheHits) : batch.cacheHits[i] = p
     THEN [P[p] EXCEPT !.linked = TRUE] ELSE P[p]]

\* the then-branch of dispatchBatch: callbacks[i].resolve(values[i])
resolveCallbacks(P, batch, values) ==
  [p \in 1..Len(P) |->
     IF \E i \in 1..Len(batch.callbacks) : batch.callbacks[i] = p
     THEN LET i == CHOOSE i \in 1..Len(batch.callbacks) : batch.callbacks[i] = p
          IN [P[p] EXCEPT !.st = "fulfilled", !.value = values[i]]
     ELSE P[p]]

\* a failedDispatch that rejects the first callback only
rejectCallbacksFirstOnly(P, batch, error) ==
  [p \in 1..Len(P) |->
     IF batch.callbacks # <<>> /\ batch.callbacks[1] = p
     THEN [P[p] EXCEPT !.st = "rejected", !.reason = error] ELSE P[p]]

\* failedDispatch: callbacks[i].reject(error)
rejectCallbacks(P, batch, error) ==
  [p \in 1..Len(P) |->
     IF \E i \in 1..Len(batch.callbacks) : batch.callbacks[i] = p
     THEN [P[p] EXCEPT !.st = "rejected", !.reason = error] ELSE P[p]]

\* a failedDispatch that leaves the failed keys in the cache
clearKeysNone(map, keys) == map

\* failedDispatch: loader.clear(batch.keys[i]) for every key
RECURSIVE clearKeys(_, _)
clearKeys(map, keys) ==
  IF keys = <<>> THEN map ELSE clearKeys(MapDelete(map, cacheKeyFn(Head(keys))), Tail(keys))

\* a promise as its holder sees it: a linked cache hit follows the cached promise
OutcomeOf(P, p) ==
  IF P[p].cached = 0 THEN P[p]
  ELSE IF P[p].linked
       THEN [P[p] EXCEPT !.st = P[P[p].cached].st,
                         !.value = P[P[p].cached].value,
                         !.reason = P[P[p].cached].reason]
       ELSE P[p]

Outcome(p) == OutcomeOf(promises, p)

\* what the promise of the m-th loadMany() holds once all its loads have
\* settled: per key the value, or the error caught
LoadManySettled(m) == \A i \in 1..Len(manyCalls[m]) : Outcome(manyCalls[m][i]).st # "pending"

LoadManyResult(m) ==
  [i \in 1..Len(manyCalls[m]) |->
     LET o == Outcome(manyCalls[m][i])
     IN IF o.st = "rejected" THEN [error |-> o.reason, rows |-> <<>>]
        ELSE [error |-> 0, rows |-> o.value]]

\* an assignment that takes the first row or null for every relation type
RelationValueFirstOrNull(type, related) ==
  IF related # <<>> THEN [t |-> "object", rows |-> <<related[1]>>]
  ELSE [t |-> "null", rows |-> <<>>]

\* an assignment that takes the last row for belongsTo and hasOne
RelationValueLastRow(type, related) ==
  IF type = "belongsTo" \/ type = "hasOne"
  THEN IF related # <<>> THEN [t |-> "object", rows |-> <<related[Len(related)]>>]
       ELSE [t |-> "null", rows |-> <<>>]
  ELSE [t |-> "array", rows |-> related]

\* an assignment that hands on the list for every relation type
RelationValueAlwaysList(type, related) == [t |-> "array", rows |-> related]

\* related[0] || null for belongsTo and hasOne, related otherwise
RelationValue(type, related) ==
  IF type = "belongsTo" \/ type = "hasOne"
  THEN IF related # <<>> THEN [t |-> "object", rows |-> <<related[1]>>]
       ELSE [t |-> "null", rows |-> <<>>]
  ELSE [t |-> "array", rows |-> related]

\* a loadRelation that waits for every record and fulfills whatever the
\* outcomes (Promise.allSettled)
LoadRelationStAllSettled ==
  IF \A p \in 1..Len(promises) : Outcome(p).st # "pending" THEN "fulfilled" ELSE "pending"

\* loadRelation after its await: Promise.all over the records
LoadRelationSt ==
  IF \E p \in 1..Len(promises) : Outcome(p).st = "rejected" THEN "rejected"
  ELSE IF \A p \in 1..Len(promises) : Outcome(p).st = "fulfilled" THEN "fulfilled"
  ELSE "pending"

\* a spread that keeps the relation field only
SpreadRelationOnly(record, name, value) == [f \in {name} |-> value]

\* {...record, [name]: value}: a new object with the fields of the record
\* and the field name, set to the value
Spread(record, name, value) ==
  [f \in DOMAIN record \cup {name} |-> IF f = name THEN value ELSE record[f]]

\* the records loadRelation resolves to, one per input record
LoadRelationResult ==
  [i \in 1..Len(lr.records) |->
     Spread(lr.records[i], relationName,
            RelationValue(getRelation(Model, relationName).type, Outcome(i).value))]

\* the promise loadRelation returned: rejected with the first rejection's
\* reason and without a value, or fulfilled with the records
LoadRelationPromise ==
  LET rejected == {p \in 1..Len(promises) : Outcome(p).st = "rejected"}
  IN CASE LoadRelationSt = "rejected" ->
            [st |-> "rejected",
             reason |-> Outcome(CHOOSE p \in rejected : \A q \in rejected : p <= q).reason,
             value |-> <<>>]
       [] LoadRelationSt = "fulfilled" ->
            [st |-> "fulfilled", reason |-> 0, value |-> LoadRelationResult]
       [] OTHER -> [st |-> "pending", reason |-> 0, value |-> <<>>]

(***************************************************************************)
(* Actions.                                                                *)
(***************************************************************************)
Init ==
  /\ relationName \in RelationNames
  /\ cacheMap = EmptyMap
  /\ batches = <<>>
  /\ promises = <<>>
  /\ calls = <<>>
  /\ manyCalls = <<>>
  /\ lr = [active |-> FALSE, records |-> <<>>]
  /\ loaders = <<>>
  /\ modelRegistry = EmptyMap
  /\ models = <<>>
  /\ registryLog = <<>>
  /\ composers = <<>>
  /\ arrays = <<>>
  /\ held = <<>>
  /\ cbCalls = <<>>
  /\ queryRuns = <<>>
  /\ thrown = "none"
  /\ includeLog = <<>>
  /\ group = [given |-> <<>>, items |-> <<>>, key |-> "id", done |-> FALSE,
              result |-> EmptyMap]
  /\ fq = NoFilterCalls

\* loader.load(key)
Load(key) ==
  /\ ~lr.active
  /\ Len(promises) < MaxLoads
  /\ LET L == load(Loader, key)
     IN /\ cacheMap' = L.cacheMap
        /\ batches' = L.batches
        /\ promises' = L.promises
  /\ UNCHANGED <<relationName, calls, manyCalls, lr>>
  /\ UNCHANGED <<instanceVars, registryVars, composeVars, groupVars, filterVars>>

\* dispatchBatch: runs once the turn that opened the batch is over
Dispatch(b) ==
  /\ ~batches[b].hasDispatched
  /\ LET batch == batches[b]
     IN /\ batches' = [batches EXCEPT ![b].hasDispatched = TRUE]
        /\ IF batch.keys = <<>>
           THEN /\ promises' = resolveCacheHits(promises, batch)
                /\ UNCHANGED calls
           ELSE /\ calls' = Append(calls,
                       [batch |-> b, keys |-> batch.keys,
                        config |-> batchConfig(relationName, batch.keys),
                        st |-> "pending", results |-> <<>>])
                /\ UNCHANGED promises
  /\ UNCHANGED <<relationName, cacheMap, manyCalls, lr>>
  /\ UNCHANGED <<instanceVars, registryVars, composeVars, groupVars, filterVars>>

\* the executor's promise resolves with rows: the batch function maps them to
\* the keys and DataLoader resolves the batch
ExecutorResolve(c, rows) ==
  /\ calls[c].st = "pending"
  /\ LET batch == batches[calls[c].batch]
         values == batchValues(batch.keys, rows, calls[c].config.batchKey)
     IN promises' = resolveCallbacks(resolveCacheHits(promises, batch), batch, values)
  /\ calls' = [calls EXCEPT ![c].st = "resolved", ![c].results = rows]
  /\ UNCHANGED <<relationName, cacheMap, batches, manyCalls, lr>>
  /\ UNCHANGED <<instanceVars, registryVars, composeVars, groupVars, filterVars>>

\* the executor's promise rejects: failedDispatch
ExecutorReject(c) ==
  /\ calls[c].st = "pending"
  /\ LET batch == batches[calls[c].batch]
     IN /\ promises' = rejectCallbacks(resolveCacheHits(promises, batch), batch, c)
        /\ cacheMap' = clearKeys(cacheMap, batch.keys)
  /\ calls' = [calls EXCEPT ![c].st = "rejected"]
  /\ UNCHANGED <<relationName, batches, manyCalls, lr>>
  /\ UNCHANGED <<instanceVars, registryVars, composeVars, groupVars, filterVars>>

\* loader.loadMany(keys): load(key).catch(error => error) for every key, in
\* one synchronous stretch, then Promise.all
LoadMany(keys) ==
  /\ ~lr.active
  /\ keys # <<>>
  /\ Len(promises) + Len(keys) <= MaxLoads
  /\ LET L == loadAll(Loader, keys)
     IN /\ cacheMap' = L.cacheMap
        /\ batches' = L.batches
        /\ promises' = L.promises
  /\ manyCalls' = Append(manyCalls, [i \in 1..Len(keys) |-> Len(promises) + i])
  /\ UNCHANGED <<relationName, calls, lr>>
  /\ UNCHANGED <<instanceVars, registryVars, composeVars, groupVars, filterVars>>

\* the key field of loadRelation: the foreign key for belongsTo, else the
\* model's primary key
keyField(model, name) ==
  IF getRelation(model, name).type = "belongsTo"
  THEN getRelation(model, name).foreignKey
  ELSE model.primaryKey

\* loadRelation(records, model, relationName, executor) up to its await: a new
\* loader, and one load(String(record[keyField])) per record, synchronously
LoadRelation(records) ==
  /\ ~lr.active
  /\ promises = <<>>
  /\ LET keys == [i \in 1..Len(records) |->
                   String(Get(records[i], keyField(Model, relationName)))]
         L == loadAll(Loader, keys)
     IN /\ cacheMap' = L.cacheMap
        /\ batches' = L.batches
        /\ promises' = L.promises
  /\ lr' = [active |-> TRUE, records |-> records]
  /\ UNCHANGED <<relationName, calls, manyCalls>>
  /\ UNCHANGED <<instanceVars, registryVars, composeVars, groupVars, filterVars>>

\* callers use load() on one loader
Next ==
  \/ \E key \in LoadKeys : Load(key)
  \/ \E b \in 1..Len(batches) : Dispatch(b)
  \/ \E c \in 1..Len(calls) : \E rows \in ExecutorResults : ExecutorResolve(c, rows)
  \/ \E c \in 1..Len(calls) : ExecutorReject(c)

Spec == Init /\ [][Next]_vars

\* callers use loadMany() on one loader
NextMany ==
  \/ \E keys \in SeqsUpTo(LoadKeys, MaxLoads) : LoadMany(keys)
  \/ \E b \in 1..Len(batches) : Dispatch(b)
  \/ \E c \in 1..Len(calls) : \E rows \in ExecutorResults : ExecutorResolve(c, rows)
  \/ \E c \in 1..Len(calls) : ExecutorReject(c)

SpecMany == Init /\ [][NextMany]_vars

\* one loadRelation() call, on the loader it creates
NextRelation ==
  \/ \E records \in SeqsUpTo(ParentRecords, MaxRecords) : LoadRelation(records)
  \/ \E b \in 1..Len(batches) : Dispatch(b)
  \/ \E c \in 1..Len(calls) : \E rows \in ExecutorResults : ExecutorResolve(c, rows)
  \/ \E c \in 1..Len(calls) : ExecutorReject(c)

SpecRelation == Init /\ [][NextRelation]_vars

(***************************************************************************)
(* Loader instances side by side.  Every createRelationLoader call makes a  *)
(* new DataLoader around the one executor; createAllRelationLoaders makes   *)
(* one per relation of the model.  loaders[i] is the i-th instance made:    *)
(* its relation, cache map, batches, promises and executor calls.           *)
(***************************************************************************)
\* a createRelationLoader that hands the new instance the cache map of the
\* first instance made
createRelationLoaderSharedCache(name) ==
  [relationName |-> name,
   cacheMap |-> IF loaders = <<>> THEN EmptyMap ELSE loaders[1].cacheMap,
   batches |-> <<>>, promises |-> <<>>, calls |-> <<>>]

\* createRelationLoader(model, relationName, executor): new DataLoader(...)
createRelationLoader(name) ==
  [relationName |-> name, cacheMap |-> EmptyMap,
   batches |-> <<>>, promises |-> <<>>, calls |-> <<>>]

\* Object.keys(model.relations), in insertion order
RelationKeys == <<"league", "profile", "posts", "teams">>

\* the load() calls made so far on all the instances
InstanceLoads ==
  UNION {{<<i, p>> : p \in 1..Len(loaders[i].promises)} : i \in 1..Len(loaders)}

\* what an executor call of these instances can resolve to
InstanceResults == {s \in ExecutorResults : Len(s) <= MaxInstanceRows}

\* createRelationLoader(Model, name, executor), once more
CreateRelationLoader(name) ==
  /\ Len(loaders) < MaxLoaders
  /\ loaders' = Append(loaders, createRelationLoader(name))
  /\ UNCHANGED <<loaderVars, registryVars, composeVars, groupVars, filterVars>>

\* createAllRelationLoaders(Model, executor): one instance per relation
CreateAllRelationLoaders ==
  /\ loaders = <<>>
  /\ loaders' = [i \in 1..Len(RelationKeys) |-> createRelationLoader(RelationKeys[i])]
  /\ UNCHANGED <<loaderVars, registryVars, composeVars, groupVars, filterVars>>

\* loaders[i].load(key)
InstanceLoad(i, key) ==
  /\ Cardinality(InstanceLoads) < MaxInstanceLoads
  /\ loaders' = [loaders EXCEPT ![i] = load(@, key)]
  /\ UNCHANGED <<loaderVars, registryVars, composeVars, groupVars, filterVars>>

\* dispatchBatch of the i-th instance
InstanceDispatch(i, b) ==
  /\ ~loaders[i].batches[b].hasDispatched
  /\ LET L == loaders[i]
         batch == L.batches[b]
         dispatched == [L EXCEPT !.batches[b].hasDispatched = TRUE]
     IN loaders' = [loaders EXCEPT ![i] =
          IF batch.keys = <<>>
          THEN [dispatched EXCEPT !.promises = resolveCacheHits(@, batch)]
          ELSE [dispatched EXCEPT !.calls = Append(@,
                  [batch |-> b, keys |-> batch.keys,
                   config |-> batchConfig(L.relationName, batch.keys),
                   st |-> "pending", results |-> <<>>])]]
  /\ UNCHANGED <<loaderVars, registryVars, composeVars, groupVars, filterVars>>

\* an executor call of the i-th instance resolves
InstanceResolve(i, c, rows) ==
  /\ loaders[i].calls[c].st = "pending"
  /\ LET L == loaders[i]
         batch == L.batches[L.calls[c].batch]
         values == batchValues(batch.keys, rows, L.calls[c].config.batchKey)
     IN loaders' = [loaders EXCEPT ![i] =
          [L EXCEPT !.promises = resolveCallbacks(resolveCacheHits(@, batch), batch, values),
                    !.calls[c].st = "resolved",
                    !.calls[c].results = rows]]
  /\ UNCHANGED <<loaderVars, registryVars, composeVars, groupVars, filterVars>>

\* an executor call of the i-th instance rejects
InstanceReject(i, c) ==
  /\ loaders[i].calls[c].st = "pending"
  /\ LET L == loaders[i]
         batch == L.batches[L.calls[c].batch]
     IN loaders' = [loaders EXCEPT ![i] =
          [L EXCEPT !.promises = rejectCallbacks(resolveCacheHits(@, batch), batch, c),
                    !.cacheMap = clearKeys(@, batch.keys),
                    !.calls[c].st = "rejected"]]
  /\ UNCHANGED <<loaderVars, registryVars, composeVars, groupVars, filterVars>>

\* several loader instances around one executor
NextInstances ==
  \/ CreateRelationLoader(relationName)
  \/ CreateAllRelationLoaders
  \/ \E i \in 1..Len(loaders) : \E key \in LoadKeys : InstanceLoad(i, key)
  \/ \E i \in 1..Len(loaders) : \E b \in 1..Len(loaders[i].batches) : InstanceDispatch(i, b)
  \/ \E i \in 1..Len(loaders) : \E c \in 1..Len(loaders[i].calls) :
       \E rows \in InstanceResults : InstanceResolve(i, c, rows)
  \/ \E i \in 1..Len(loaders) : \E c \in 1..Len(loaders[i].calls) : InstanceReject(i, c)

SpecInstances == Init /\ [][NextInstances]_vars

(***************************************************************************)
(* The model registry (relations/define.ts): a module-level Map from model  *)
(* name to the model object.  An object is its reference, the index of the  *)
(* object among those defineModel created; undefined is the reference 0.    *)
(***************************************************************************)
Undefined == 0

ModelNames == {"League", "Post"}

\* what callers pass to defineModel: primaryKey given or omitted
ModelConfigs ==
  [name : ModelNames, table : {"leagues"}, primaryKey : {"undefined", "uuid"}]

\* a defineModel that keeps the entry a name already has
defineModelKeepFirst(registry, heap, config) ==
  LET model == [name |-> config.name, table |-> config.table,
                primaryKey |-> IF config.primaryKey = "undefined" THEN "id"
                               ELSE config.primaryKey]
      ref == Len(heap) + 1
  IN [modelRegistry |-> IF config.name \in DOMAIN registry THEN registry
                        ELSE MapSet(registry, config.name, ref),
      models |-> Append(heap, model), returned |-> ref]

\* defineModel(config): build the object (primaryKey ?? 'id'), set it under
\* config.name, return it
defineModel(registry, heap, config) ==
  LET model == [name |-> config.name, table |-> config.table,
                primaryKey |-> IF config.primaryKey = "undefined" THEN "id"
                               ELSE config.primaryKey]
      ref == Len(heap) + 1
  IN [modelRegistry |-> MapSet(registry, config.name, ref),
      models |-> Append(heap, model), returned |-> ref]

\* getModel(name): modelRegistry.get(name)
getModel(name) == IF name \in DOMAIN modelRegistry THEN modelRegistry[name] ELSE Undefined

DefineModel(config) ==
  /\ Len(registryLog) < MaxRegistryOps
  /\ LET r == defineModel(modelRegistry, models, config)
     IN /\ modelRegistry' = r.modelRegistry
        /\ models' = r.models
        /\ registryLog' = Append(registryLog,
             [op |-> "defineModel", name |-> config.name, returned |-> r.returned])
  /\ UNCHANGED <<loaderVars, instanceVars, composeVars, groupVars, filterVars>>

\* clearModelRegistry(): modelRegistry.clear()
ClearModelRegistry ==
  /\ Len(registryLog) < MaxRegistryOps
  /\ modelRegistry' = EmptyMap
  /\ registryLog' = Append(registryLog,
       [op |-> "clearModelRegistry", name |-> "", returned |-> Undefined])
  /\ UNCHANGED <<models, loaderVars, instanceVars, composeVars, groupVars, filterVars>>

NextRegistry ==
  \/ \E config \in ModelConfigs : DefineModel(config)
  \/ ClearModelRegistry

SpecRegistry == Init /\ [][NextRegistry]_vars

(***************************************************************************)
(* Composers as objects (core/query-composer.ts, relations/include.ts).     *)
(* A composer holds its arrays by reference: conditions and, for a          *)
(* ModelQueryComposer, includes.  The operators below take the heap (the    *)
(* composers and the arrays) and return the heap after the call, with what  *)
(* the call returned or threw.                                              *)
(***************************************************************************)
Heap == [composers |-> composers, arrays |-> arrays]

\* the model a ModelQueryComposer was made for
ModelOf(name) == IF name = "League" THEN Model ELSE Country

\* [] or [...array]: a new array
newArray(H, content) == [H EXCEPT !.arrays = Append(@, content)]

\* new QueryComposer(schema, table, {strict}): conditions = []
newQueryComposer(H, owner, schema, table, strict) ==
  LET H1 == newArray(H, <<>>)
  IN [H1 EXCEPT !.composers = Append(@,
        [kind |-> "QueryComposer", owner |-> owner, model |-> "",
         qc |-> QueryComposer(schema, table, strict, {}),
         conditions |-> Len(H1.arrays), includes |-> 0, clonedFrom |-> 0])]

\* new ModelQueryComposer(model): super(model.schema, model.table,
\* {strict: false}), includes = []
newModelQueryComposer(H, owner, modelName) ==
  LET H1 == newArray(newArray(H, <<>>), <<>>)
  IN [H1 EXCEPT !.composers = Append(@,
        [kind |-> "ModelQueryComposer", owner |-> owner, model |-> modelName,
         qc |-> QueryComposer(ModelOf(modelName).schema, ModelOf(modelName).table, FALSE, {}),
         conditions |-> Len(H1.arrays) - 1, includes |-> Len(H1.arrays),
         clonedFrom |-> 0])]

\* the conditions and the tracked includes a composer holds now
ConditionsOf(H, c) == H.arrays[H.composers[c].conditions]
IncludesOf(H, c) ==
  IF H.composers[c].includes = 0 THEN <<>> ELSE H.arrays[H.composers[c].includes]

\* composer.toParam()
ComposerQuery(H, c) ==
  toParam([H.composers[c].qc EXCEPT !.conditions = ConditionsOf(H, c)])

\* where({column: value}): push the condition; a column that is not
\* whitelisted throws on a strict composer and is skipped on a non-strict one
where(H, c, column, value) ==
  LET obj == H.composers[c]
  IN IF validateColumn(obj.qc, Col(column))
     THEN [H |-> [H EXCEPT !.arrays[obj.conditions] =
                    Append(@, [column |-> Col(column), operator |-> "exact",
                               value |-> value])],
           thrown |-> "none"]
     ELSE [H |-> H, thrown |-> IF obj.qc.strict THEN "InvalidColumnError" ELSE "none"]

\* include(relation, queryCallback); a QueryComposer has no such method, and
\* calling it is a TypeError
include(H, c, relation, queryCallback) ==
  LET obj == H.composers[c]
  IN IF obj.kind # "ModelQueryComposer" THEN [H |-> H, thrown |-> "TypeError"]
     ELSE IF ~hasRelation(ModelOf(obj.model), relation)
          THEN [H |-> H, thrown |-> "RelationNotFoundError"]
          ELSE [H |-> [H EXCEPT !.arrays[obj.includes] =
                         Append(@, [relation |-> relation,
                                    config |-> getRelation(ModelOf(obj.model), relation),
                                    query |-> queryCallback, nested |-> <<>>])],
                thrown |-> "none"]

\* the filter callbacks callers pass to include(): none, q => q.where({id:
\* 'x'}), q => q.include('league')
Callbacks == {"undefined", "whereId", "includeNested"}

\* inc.query(baseQuery)
applyCallback(H, callback, q) ==
  IF callback = "whereId" THEN where(H, q, "id", S("x"))
  ELSE include(H, q, "league", "undefined")

\* a getIncludeQueries that hands the callback the composer itself
baseQueryIsParent(H, parent, inc) == [H |-> H, ref |-> parent]

\* new QueryComposer(z.object({}), inc.config.target, {strict: false})
baseQuery(H, parent, inc) ==
  LET H1 == newQueryComposer(H, "callback", {}, inc.config.target, FALSE)
  IN [H |-> H1, ref |-> Len(H1.composers)]

\* getIncludeQueries(): this.includes.map(...) from the i-th include on;
\* items are the queries made so far, called the callbacks called so far.
\* A callback that throws ends the call.
RECURSIVE includeQueriesFrom(_, _, _, _, _, _)
includeQueriesFrom(H, c, i, items, called, run) ==
  IF i > Len(IncludesOf(H, c))
  THEN [H |-> H, items |-> items, called |-> called, thrown |-> "none"]
  ELSE LET inc == IncludesOf(H, c)[i]
           base == baseQuery(H, c, inc)
           final == IF inc.query = "undefined"
                    THEN [H |-> base.H, thrown |-> "none"]
                    ELSE applyCallback(base.H, inc.query, base.ref)
           nowCalled == IF inc.query = "undefined" THEN called
                        ELSE Append(called,
                               [run |-> run, composer |-> c, index |-> i,
                                callback |-> inc.query, subquery |-> base.ref])
       IN IF final.thrown # "none"
          THEN [H |-> final.H, items |-> <<>>, called |-> nowCalled,
                thrown |-> final.thrown]
          ELSE includeQueriesFrom(final.H, c, i + 1,
                 Append(items,
                   [relation |-> inc.relation, type |-> inc.config.type,
                    query |-> ComposerQuery(final.H, base.ref),
                    foreignKey |-> inc.config.foreignKey,
                    primaryKey |-> inc.config.primaryKey]),
                 nowCalled, run)

getIncludeQueries(H, c, run) == includeQueriesFrom(H, c, 1, <<>>, <<>>, run)

\* a getIncludes that returns the list the composer works on
getIncludesLive(H, c) == [H |-> H, ref |-> H.composers[c].includes]

\* getIncludes(): [...this.includes]
getIncludes(H, c) ==
  LET H1 == newArray(H, IncludesOf(H, c))
  IN [H |-> H1, ref |-> Len(H1.arrays)]

\* a clone that takes over the original's includes array
cloneSharedIncludes(H, c) ==
  LET obj == H.composers[c]
      H1 == newArray(H, ConditionsOf(H, c))
  IN [H1 EXCEPT !.composers = Append(@,
        [obj EXCEPT !.conditions = Len(H1.arrays), !.clonedFrom = c])]

\* clone(): a new composer of the same kind with copies of the arrays
\* (QueryComposer.clone copies conditions; ModelQueryComposer.clone assigns
\* the fields of that copy to a new ModelQueryComposer and copies includes)
clone(H, c) ==
  LET obj == H.composers[c]
      H1 == newArray(H, ConditionsOf(H, c))
      H2 == IF obj.kind = "ModelQueryComposer" THEN newArray(H1, IncludesOf(H, c)) ELSE H1
  IN [H2 EXCEPT !.composers = Append(@,
        [obj EXCEPT !.conditions = Len(H1.arrays),
                    !.includes = IF obj.kind = "ModelQueryComposer"
                                 THEN Len(H2.arrays) ELSE 0,
                    !.clonedFrom = c])]

\* the composers the caller holds, and the model composers among them
CallerComposers == {c \in 1..Len(composers) : composers[c].owner = "caller"}
ModelComposers == {c \in CallerComposers : composers[c].kind = "ModelQueryComposer"}

\* the successful include() calls of every composer of the heap after a call
LogAfter(H, c, entries) ==
  [d \in 1..Len(H.composers) |->
     IF d = c THEN entries
     ELSE IF d \in DOMAIN includeLog THEN includeLog[d] ELSE <<>>]

\* the names callers pass to include()
IncludeNames == {"posts", "league", "nonexistent", "constructor"}

\* the columns callers filter on with where()
WhereColumns == {"status", "bogus"}

\* createModelQuery(model)
CreateModelQuery(modelName) ==
  /\ Cardinality(CallerComposers) < MaxComposers
  /\ LET H == newModelQueryComposer(Heap, "caller", modelName)
     IN /\ composers' = H.composers
        /\ arrays' = H.arrays
        /\ includeLog' = LogAfter(H, Len(H.composers), <<>>)
  /\ thrown' = "none"
  /\ UNCHANGED <<held, cbCalls, queryRuns, loaderVars, instanceVars, registryVars, groupVars, filterVars>>

\* createQueryComposer(schema, table): strict by default
CreateQueryComposer ==
  /\ Cardinality(CallerComposers) < MaxComposers
  /\ LET H == newQueryComposer(Heap, "caller", Model.schema, Model.table, TRUE)
     IN /\ composers' = H.composers
        /\ arrays' = H.arrays
        /\ includeLog' = LogAfter(H, Len(H.composers), <<>>)
  /\ thrown' = "none"
  /\ UNCHANGED <<held, cbCalls, queryRuns, loaderVars, instanceVars, registryVars, groupVars, filterVars>>

\* composer.include(relation, queryCallback)
Include(c, relation, queryCallback) ==
  /\ c \in ModelComposers
  /\ Len(includeLog[c]) < MaxIncludes
  /\ LET r == include(Heap, c, relation, queryCallback)
     IN /\ composers' = r.H.composers
        /\ arrays' = r.H.arrays
        /\ thrown' = r.thrown
        /\ includeLog' =
             IF r.thrown = "none"
             THEN LogAfter(r.H, c, Append(includeLog[c],
                    [relation |-> relation, query |-> queryCallback]))
             ELSE includeLog
  /\ UNCHANGED <<held, cbCalls, queryRuns, loaderVars, instanceVars, registryVars, groupVars, filterVars>>

\* composer.where({column: 'active'})
Where(c, column) ==
  /\ c \in CallerComposers
  /\ Len(ConditionsOf(Heap, c)) < MaxConditions
  /\ LET r == where(Heap, c, column, S("active"))
     IN /\ composers' = r.H.composers
        /\ arrays' = r.H.arrays
        /\ thrown' = r.thrown
  /\ UNCHANGED <<held, cbCalls, queryRuns, includeLog, loaderVars, instanceVars, registryVars, groupVars, filterVars>>

\* composer.getIncludes()
GetIncludes(c) ==
  /\ c \in ModelComposers
  /\ Len(held) < MaxHeld
  /\ LET r == getIncludes(Heap, c)
     IN /\ composers' = r.H.composers
        /\ arrays' = r.H.arrays
        /\ held' = Append(held, r.ref)
  /\ thrown' = "none"
  /\ UNCHANGED <<cbCalls, queryRuns, includeLog, loaderVars, instanceVars, registryVars, groupVars, filterVars>>

\* the caller changes a list getIncludes() returned: pop(), reverse(), or
\* push() of an entry of its own
CallerMutates(h, op) ==
  LET list == arrays[held[h]]
  IN /\ CASE op = "pop" ->
               /\ list # <<>>
               /\ arrays' = [arrays EXCEPT ![held[h]] = SubSeq(list, 1, Len(list) - 1)]
          [] op = "reverse" ->
               /\ Len(list) >= 2
               /\ arrays' = [arrays EXCEPT ![held[h]] =
                    [i \in 1..Len(list) |-> list[Len(list) + 1 - i]]]
          [] op = "push" ->
               /\ Len(list) < MaxIncludes
               /\ arrays' = [arrays EXCEPT ![held[h]] =
                    Append(list, [relation |-> "league", config |-> Relation("league"),
                                  query |-> "undefined", nested |-> <<>>])]
     /\ thrown' = "none"
     /\ UNCHANGED <<composers, held, cbCalls, queryRuns, includeLog,
                    loaderVars, instanceVars, registryVars, groupVars, filterVars>>

\* composer.getIncludeQueries()
GetIncludeQueries(c) ==
  /\ c \in ModelComposers
  /\ Len(queryRuns) < MaxQueryRuns
  /\ LET r == getIncludeQueries(Heap, c, Len(queryRuns) + 1)
     IN /\ composers' = r.H.composers
        /\ arrays' = r.H.arrays
        /\ cbCalls' = cbCalls \o r.called
        /\ queryRuns' = Append(queryRuns,
             [composer |-> c, thrown |-> r.thrown, items |-> r.items])
        /\ thrown' = r.thrown
        /\ includeLog' = LogAfter(r.H, c, includeLog[c])
  /\ UNCHANGED <<held, loaderVars, instanceVars, registryVars, groupVars, filterVars>>

\* composer.clone()
Clone(c) ==
  /\ c \in CallerComposers
  /\ Cardinality(CallerComposers) < MaxComposers
  /\ LET H == clone(Heap, c)
     IN /\ composers' = H.composers
        /\ arrays' = H.arrays
        /\ includeLog' = LogAfter(H, Len(H.composers), includeLog[c])
  /\ thrown' = "none"
  /\ UNCHANGED <<held, cbCalls, queryRuns, loaderVars, instanceVars, registryVars, groupVars, filterVars>>

\* one model composer, after createModelQuery(model): its includes, its
\* filter callbacks and its include queries
InitInclude ==
  /\ relationName = "posts"
  /\ cacheMap = EmptyMap /\ batches = <<>> /\ promises = <<>> /\ calls = <<>>
  /\ manyCalls = <<>> /\ lr = [active |-> FALSE, records |-> <<>>]
  /\ loaders = <<>>
  /\ modelRegistry = EmptyMap /\ models = <<>> /\ registryLog = <<>>
  /\ \E modelName \in {"League", "Country"} :
       LET H == newModelQueryComposer([composers |-> <<>>, arrays |-> <<>>],
                                      "caller", modelName)
       IN composers = H.composers /\ arrays = H.arrays
  /\ held = <<>> /\ cbCalls = <<>> /\ queryRuns = <<>>
  /\ thrown = "none"
  /\ includeLog = <<<<>>>>
  /\ group = [given |-> <<>>, items |-> <<>>, key |-> "id", done |-> FALSE,
              result |-> EmptyMap]
  /\ fq = NoFilterCalls

NextInclude ==
  \/ \E c \in 1..Len(composers) : \E relation \in IncludeNames :
       \E queryCallback \in Callbacks : Include(c, relation, queryCallback)
  \/ \E c \in 1..Len(composers) : \E column \in WhereColumns : Where(c, column)
  \/ \E c \in 1..Len(composers) : GetIncludeQueries(c)

SpecInclude == InitInclude /\ [][NextInclude]_vars

\* the relations and callbacks of the callers that copy: getIncludes() and
\* clone()
CopiedNames == {"posts", "league"}
CopiedCallbacks == {"undefined"}

\* composers made, cloned and changed, and include lists taken and changed
NextCopies ==
  \/ CreateModelQuery("League")
  \/ CreateQueryComposer
  \/ \E c \in 1..Len(composers) : \E relation \in CopiedNames :
       \E queryCallback \in CopiedCallbacks : Include(c, relation, queryCallback)
  \/ \E c \in 1..Len(composers) : \E column \in WhereColumns : Where(c, column)
  \/ \E c \in 1..Len(composers) : GetIncludes(c)
  \/ \E h \in 1..Len(held) : \E op \in {"pop", "reverse", "push"} : CallerMutates(h, op)
  \/ \E c \in 1..Len(composers) : GetIncludeQueries(c)
  \/ \E c \in 1..Len(composers) : Clone(c)

InitCopies == Init /\ relationName = "posts"

SpecCopies == InitCopies /\ [][NextCopies]_vars

(***************************************************************************)
(* Progress.  A batch's dispatch is queued on the job queue when the batch  *)
(* is opened and runs when the turn is over, so a dispatch that is due does *)
(* happen: weak fairness on Dispatch.  Nothing makes the executor answer:   *)
(* its calls may stay pending for ever, and the callers may stop loading.   *)
(***************************************************************************)
NextLive ==
  \/ \E key \in LoadKeys : Load(key)
  \/ \E keys \in SeqsUpTo(LoadKeys, MaxLiveKeys) : LoadMany(keys)
  \/ \E b \in 1..Len(batches) : Dispatch(b)
  \/ \E c \in 1..Len(calls) : \E rows \in LiveResults : ExecutorResolve(c, rows)
  \/ \E c \in 1..Len(calls) : ExecutorReject(c)

SpecLive ==
  /\ Init
  /\ [][NextLive]_vars
  /\ WF_vars(\E b \in 1..Len(batches) : Dispatch(b))

(***************************************************************************)
(* groupByKey on its own: any list of rows, by either key column.           *)
(***************************************************************************)
\* rows whose key columns hold strings or numbers; 1 and "1" are different
\* Map keys
GroupRows ==
  {[id |-> S("l1"), league_id |-> S("l1")],
   [id |-> S("l2"), league_id |-> S("l1")],
   [id |-> N("1"), league_id |-> S("1")],
   [id |-> S("1"), league_id |-> N("1")]}

InitGroup ==
  /\ relationName = "posts"
  /\ cacheMap = EmptyMap /\ batches = <<>> /\ promises = <<>> /\ calls = <<>>
  /\ manyCalls = <<>> /\ lr = [active |-> FALSE, records |-> <<>>]
  /\ loaders = <<>>
  /\ modelRegistry = EmptyMap /\ models = <<>> /\ registryLog = <<>>
  /\ composers = <<>> /\ arrays = <<>> /\ held = <<>> /\ cbCalls = <<>>
  /\ queryRuns = <<>> /\ thrown = "none" /\ includeLog = <<>>
  /\ \E items \in SeqsUpTo(GroupRows, MaxGroupRows) : \E key \in {"id", "league_id"} :
       group = [given |-> items, items |-> items, key |-> key, done |-> FALSE,
                result |-> EmptyMap]
  /\ fq = NoFilterCalls

\* groupByKey(items, key): reads the items, returns a new Map
GroupByKey ==
  /\ ~group.done
  /\ group' = [group EXCEPT !.done = TRUE, !.result = groupByKey(group.items, group.key)]
  /\ UNCHANGED <<loaderVars, instanceVars, registryVars, composeVars, filterVars>>

NextGroup == GroupByKey

SpecGroup == InitGroup /\ [][NextGroup]_vars

(***************************************************************************)
(* Filters: where(), or() and not() on a strict and on a non-strict         *)
(* composer, with filter objects of valid and invalid entries.              *)
(***************************************************************************)
\* entries with a schema column, with an operator, with a column that is not
\* whitelisted, with an operator that does not exist, and with an undefined
\* value
FilterEntries ==
  {[key |-> <<"status">>, value |-> S("active")],
   [key |-> <<"name", "gt">>, value |-> S("m")],
   [key |-> <<"bogus">>, value |-> S("value")],
   [key |-> <<"status", "nope">>, value |-> S("x")],
   [key |-> <<"ghost">>, value |-> UndefinedValue]}

\* filter objects: no key twice
Filters == {f \in SeqsUpTo(FilterEntries, MaxEntries) : Distinct(f)}

\* the arguments of or(): lists of filter objects of one entry
FilterGroups == SeqsUpTo({f \in Filters : Len(f) = 1}, MaxEntries)

FilterCall(c, op, entries, r) ==
  /\ Len(fq.log) < MaxFilterCalls
  /\ fq' = [qcs |-> [fq.qcs EXCEPT ![c] = r.qc],
            thrown |-> r.thrown,
            log |-> Append(fq.log, [op |-> op, c |-> c, entries |-> entries,
                                    thrown |-> r.thrown])]
  /\ UNCHANGED <<loaderVars, instanceVars, registryVars, composeVars, groupVars>>

\* composer.where(filters)
WhereFilters(c, filters) ==
  FilterCall(c, "where", filters, whereFilters(fq.qcs[c], filters))

\* composer.or(filterGroups)
OrFilters(c, filterGroups) ==
  FilterCall(c, "or", Entries(filterGroups), orFilters(fq.qcs[c], filterGroups))

\* composer.not(filters)
NotFilters(c, filters) ==
  FilterCall(c, "not", filters, notFilters(fq.qcs[c], filters))

NextWhere ==
  \/ \E c \in 1..Len(fq.qcs) : \E filters \in Filters : WhereFilters(c, filters)
  \/ \E c \in 1..Len(fq.qcs) : \E filterGroups \in FilterGroups : OrFilters(c, filterGroups)
  \/ \E c \in 1..Len(fq.qcs) : \E filters \in Filters : NotFilters(c, filters)

InitWhere == Init /\ relationName = "posts"

SpecWhere == InitWhere /\ [][NextWhere]_vars

(***************************************************************************)
(* loadRelation over records whose key fields hold numbers, strings, null   *)
(* or nothing, with rows whose key columns hold numbers or strings.         *)
(***************************************************************************)
KeyedRecords ==
  {[id |-> N("1"), league_id |-> N("1")],
   [id |-> N("2"), league_id |-> N("1"), posts |-> S("stale")],
   [id |-> S("l1"), league_id |-> S("l1")],
   [id |-> NullValue, league_id |-> NullValue],
   [name |-> S("n")]}

KeyRows ==
  {[id |-> N("1"), league_id |-> N("1")],
   [id |-> N("2"), league_id |-> N("1")],
   [id |-> S("l1"), league_id |-> S("l1")]}

KeyResults == {s \in SeqsUpTo(KeyRows, MaxKeyRows) : Distinct(s)}

NextKeys ==
  \/ \E records \in SeqsUpTo(KeyedRecords, MaxKeyedRecords) : LoadRelation(records)
  \/ \E b \in 1..Len(batches) : Dispatch(b)
  \/ \E c \in 1..Len(calls) : \E rows \in KeyResults : ExecutorResolve(c, rows)
  \/ \E c \in 1..Len(calls) : ExecutorReject(c)

SpecKeys == Init /\ [][NextKeys]_vars

(***************************************************************************)
(* Properties.                                                             *)
(***************************************************************************)
\* the executor calls made for a batch
ExecutorCallsOf(b) == {c \in 1..Len(calls) : calls[c].batch = b}

\* the load() calls of a turn, and those among them that missed the cache
LoadsOfTurn(t) == {p \in 1..Len(promises) : promises[p].turn = t}
MissesOfTurn(t) == {p \in LoadsOfTurn(t) : promises[p].cached = 0}

\* the executor calls made for the batches the loads of a turn went to
CallsOfTurn(t) ==
  {c \in 1..Len(calls) : \E p \in LoadsOfTurn(t) : promises[p].batch = calls[c].batch}

\* the turn that is still running: its batch, if any, is not dispatched yet
RunningTurn == CurrentTurn(Loader)

C2_LoadRelationOneQuery ==
  lr.active =>
    /\ Len(calls) <= 1
    /\ lr.records = <<>> => batches = <<>> /\ calls = <<>>
    /\ lr.records # <<>> /\ (\A b \in 1..Len(batches) : batches[b].hasDispatched) =>
         Len(calls) = 1

\* three parent records, two of them with the same key, loaded by one call
C2_Witness ==
  /\ lr.active
  /\ Len(lr.records) = 3
  /\ Cardinality({promises[p].key : p \in 1..Len(promises)}) = 2
  /\ Len(calls) = 1
  /\ LoadRelationSt = "fulfilled"

\* the batch-key column of the loader's relation: the target's primary key
\* for belongsTo, the foreign key otherwise
BatchKeyColumn ==
  IF Relation(relationName).type = "belongsTo"
  THEN Relation(relationName).primaryKey
  ELSE Relation(relationName).foreignKey

\* the rows of an executor result whose batch-key column is k, in result order
RowsOfKey(rows, k) ==
  LET Has(row) == row[BatchKeyColumn] = k
  IN SelectSeq(rows, Has)

\* the promise whose settlement a load() follows: its own, or the cached one
Source(p) == IF promises[p].cached = 0 THEN p ELSE promises[p].cached

\* the executor call that serves a load(): the call of its source's batch
ServingCalls(p) == ExecutorCallsOf(promises[Source(p)].batch)

\* C3: a load(k) that resolves holds exactly the rows of its batch's executor
\* result whose batch-key column equals k, in executor-result order: no row of
\* another caller's key and no row of a key nobody asked for.
C3_RowsOfOwnKey ==
  \A p \in 1..Len(promises) :
    Outcome(p).st = "fulfilled" =>
      \E c \in ServingCalls(p) :
        /\ calls[c].st = "resolved"
        /\ Outcome(p).value = RowsOfKey(calls[c].results, promises[p].key)

\* one batch for l1 and l2 whose result holds two rows of l1 around a row of l2
C3_Witness ==
  \E p, q \in 1..Len(promises) :
    /\ promises[p].batch = promises[q].batch
    /\ promises[p].key = S("l1") /\ promises[q].key = S("l2")
    /\ Outcome(p).st = "fulfilled" /\ Outcome(q).st = "fulfilled"
    /\ Len(Outcome(p).value) = 2 /\ Len(Outcome(q).value) = 1
    /\ \E c \in ServingCalls(p) :
         /\ Len(calls[c].results) = 3
         /\ calls[c].results[2] = Outcome(q).value[1]

\* what load(k) gives once the call serving it has settled: the rows of k in
\* the call's result, or the call's error
ResultFor(p) ==
  LET c == CHOOSE c \in ServingCalls(p) : TRUE
  IN IF calls[c].st = "rejected" THEN [error |-> c, rows |-> <<>>]
     ELSE [error |-> 0, rows |-> RowsOfKey(calls[c].results, promises[p].key)]

\* C4: loadMany([k1, ..., kn]) resolves to n elements, the i-th being the
\* result for ki, whatever the order of the rows in the executor result and
\* also when keys repeat.
C4_LoadManyKeepsKeyOrder ==
  \A m \in 1..Len(manyCalls) :
    LoadManySettled(m) =>
      /\ Len(LoadManyResult(m)) = Len(manyCalls[m])
      /\ \A i \in 1..Len(manyCalls[m]) :
           /\ ServingCalls(manyCalls[m][i]) # {}
           /\ LoadManyResult(m)[i] = ResultFor(manyCalls[m][i])

\* loadMany([l2, l1, l2]) resolved from a result that brings a row of l1
\* before a row of l2
C4_Witness ==
  \E m \in 1..Len(manyCalls) :
    /\ LoadManySettled(m)
    /\ [i \in 1..Len(manyCalls[m]) |-> promises[manyCalls[m][i]].key]
         = <<S("l2"), S("l1"), S("l2")>>
    /\ LoadManyResult(m)[1].rows # <<>>
    /\ LoadManyResult(m)[2].rows # <<>>
    /\ \E c \in ServingCalls(manyCalls[m][1]) :
         calls[c].results[1] = LoadManyResult(m)[2].rows[1]

\* the load() calls an executor call serves within its own batch: the
\* requests of that batch, repeats included
RequestsOf(c) ==
  {p \in 1..Len(promises) : promises[p].batch = calls[c].batch /\ c \in ServingCalls(p)}

\* how many parameter values of a call's query equal k
TimesQueried(c, k) ==
  Cardinality({i \in 1..Len(calls[c].config.query.values) :
                 calls[c].config.query.values[i] = k})

\* a batch in which some key was requested more than once
HasRepeats(c) ==
  \E p, q \in RequestsOf(c) : p # q /\ promises[p].key = promises[q].key

\* C5: when a batch holds repeated requests, its query names each distinct
\* requested key exactly once among its parameter values, and a repeated
\* request settles like the first request for its key.
C5_DistinctKeysQueriedOnce ==
  \A c \in 1..Len(calls) :
    HasRepeats(c) =>
      /\ \A p \in RequestsOf(c) : TimesQueried(c, promises[p].key) = 1
      /\ \A p, q \in RequestsOf(c) :
           promises[p].key = promises[q].key /\ calls[c].st # "pending" =>
             /\ Outcome(q).st = Outcome(p).st
             /\ Outcome(q).value = Outcome(p).value

RelationType == Relation(relationName).type

\* a load() whose executor call resolved without a row for its key
NoMatchingRow(p) ==
  \E c \in ServingCalls(p) :
    calls[c].st = "resolved" /\ RowsOfKey(calls[c].results, promises[p].key) = <<>>

\* C6: for hasMany and hasManyThrough, a key without matching rows resolves to
\* the empty list, on the loader and in the record loadRelation returns:
\* never null, never a rejection.
C6_ManyWithoutRowsIsEmptyList ==
  RelationType \in {"hasMany", "hasManyThrough"} =>
    \A p \in 1..Len(promises) :
      NoMatchingRow(p) =>
        /\ Outcome(p).st = "fulfilled"
        /\ Outcome(p).value = <<>>
        /\ lr.active => LoadRelationResult[p][relationName] = [t |-> "array", rows |-> <<>>]

\* loadRelation for posts done, one parent with rows and one without
C6_Witness ==
  /\ relationName = "posts"
  /\ lr.active
  /\ LoadRelationSt = "fulfilled"
  /\ \E p, q \in 1..Len(promises) :
       /\ NoMatchingRow(p)
       /\ LoadRelationResult[p][relationName] = [t |-> "array", rows |-> <<>>]
       /\ Len(LoadRelationResult[q][relationName].rows) = 2

\* C7 as stated: for belongsTo and hasOne, load(key) on the relation loader
\* resolves to null, not to an empty list, for a key without matching rows.
C7_LoaderResolvesNull ==
  RelationType \in {"belongsTo", "hasOne"} =>
    \A p \in 1..Len(promises) :
      NoMatchingRow(p) => ~(Outcome(p).st = "fulfilled" /\ Outcome(p).value = <<>>)

\* C7 amended: for belongsTo and hasOne, load(key) on the relation loader
\* resolves to the empty list for a key without matching rows, as for the
\* other relation types; it is loadRelation that turns it into null on the
\* record.  Neither is an error.
C7_NullOnlyInLoadRelation ==
  RelationType \in {"belongsTo", "hasOne"} =>
    \A p \in 1..Len(promises) :
      NoMatchingRow(p) =>
        /\ Outcome(p).st = "fulfilled"
        /\ Outcome(p).value = <<>>
        /\ lr.active => LoadRelationResult[p][relationName] = [t |-> "null", rows |-> <<>>]

\* loadRelation for a belongsTo relation done, one parent with a row and one
\* without
C7_Witness ==
  /\ relationName = "league"
  /\ lr.active
  /\ LoadRelationSt = "fulfilled"
  /\ \E p, q \in 1..Len(promises) :
       /\ NoMatchingRow(p)
       /\ LoadRelationResult[p][relationName].t = "null"
       /\ LoadRelationResult[q][relationName].t = "object"

\* the executor calls whose batch asked for the key of a load()
CallsNaming(k) ==
  {c \in 1..Len(calls) : \E i \in 1..Len(calls[c].keys) : String(calls[c].keys[i]) = String(k)}

\* a load() of a later turn for a key whose earlier load() resolved
Reloads(p, q) ==
  /\ p < q
  /\ promises[p].cached = 0
  /\ promises[p].st = "fulfilled"
  /\ String(promises[q].key) = String(promises[p].key)
  /\ promises[q].turn > promises[p].turn

\* C8: a load(k) in a later turn than a load(k) that resolved is served from
\* the cache under String(k): it joins no batch query, the executor is not
\* called again for k, and it resolves to the value of the first.
C8_SecondLoadFromCache ==
  \A p, q \in 1..Len(promises) :
    Reloads(p, q) =>
      /\ String(promises[q].key) \in DOMAIN cacheMap
      /\ cacheMap[String(promises[q].key)] = p
      /\ promises[q].cached = p
      /\ \A i \in 1..Len(batches[promises[q].batch].keys) :
           String(batches[promises[q].batch].keys[i]) # String(promises[q].key)
      /\ \A c \in CallsNaming(promises[q].key) :
           \A d \in ServingCalls(p) : c <= d
      /\ ServingCalls(q) = ServingCalls(p)
      /\ Cardinality(ServingCalls(p)) = 1
      /\ Outcome(q).st # "pending" =>
           Outcome(q).st = "fulfilled" /\ Outcome(q).value = promises[p].value

\* the second load(k), a turn after the first resolved with a row, has
\* resolved to the same rows and the executor was called once
C8_Witness ==
  \E p, q \in 1..Len(promises) :
    /\ Reloads(p, q)
    /\ Outcome(q).st = "fulfilled"
    /\ Outcome(q).value # <<>>
    /\ Len(calls) = 1

FailedKey(k) ==
  \E p \in 1..Len(promises) :
    /\ promises[p].cached = 0 /\ promises[p].st = "rejected"
    /\ String(promises[p].key) = String(k)
    /\ \A r \in 1..Len(promises) :
         r > p /\ promises[r].cached = 0 => String(promises[r].key) # String(k)

\* no retry, and no rejected promise left in the cache; a key loaded again
\* after a failure has a batch and an executor call of its own
NoRetryNoPoison ==
  /\ \A b \in 1..Len(batches) : Cardinality(ExecutorCallsOf(b)) <= 1
  /\ \A k \in DOMAIN cacheMap : promises[cacheMap[k]].st # "rejected"
  /\ \A p, q \in 1..Len(promises) :
       /\ p < q
       /\ promises[p].cached = 0 /\ promises[p].st = "rejected"
       /\ promises[q].cached = 0
       /\ String(promises[q].key) = String(promises[p].key)
       => /\ promises[q].batch > promises[p].batch
          /\ ServingCalls(q) \cap ServingCalls(p) = {}
          /\ batches[promises[q].batch].hasDispatched =>
               Cardinality(ServingCalls(q)) = 1

\* a load() of a key whose batch failed misses the cache and is enqueued in
\* a batch that is not dispatched yet
ReloadAfterFailure ==
  \A k \in LoadKeys :
    FailedKey(k) /\ Load(k) =>
      LET q == Len(promises')
      IN /\ promises'[q].key = k
         /\ promises'[q].cached = 0
         /\ ~batches'[promises'[q].batch].hasDispatched
         /\ \E i \in 1..Len(batches'[promises'[q].batch].keys) :
              batches'[promises'[q].batch].keys[i] = k
         /\ String(k) \in DOMAIN cacheMap'
         /\ cacheMap'[String(k)] = q

C11_LoadRelationRejectsWhole ==
  lr.active =>
    \A c \in 1..Len(calls) :
      calls[c].st = "rejected" =>
        /\ LoadRelationPromise.st = "rejected"
        /\ LoadRelationPromise.reason = c
        /\ LoadRelationPromise.value = <<>>

\* loadRelation over three records with two keys, its executor call rejected
C11_Witness ==
  /\ lr.active
  /\ Len(lr.records) = 3
  /\ Cardinality({promises[p].key : p \in 1..Len(promises)}) = 2
  /\ Len(calls) = 1 /\ calls[1].st = "rejected"
  /\ LoadRelationPromise.st = "rejected"

\* a WHERE clause that is one filter column IN (n placeholders)
InFilter(column, n) == <<[column |-> column, operator |-> "IN", placeholders |-> n]>>

\* the keys the batch function hands to the generator for an executor call
GivenKeys(c) == uniqueKeys(calls[c].keys)

\* C13: for a hasManyThrough relation the batch query selects from the
\* target joined to the through table on target.throughPrimaryKey =
\* through.throughForeignKey, filters on through.foreignKey IN (keys) with the
\* requested keys as parameter values; batchKey is foreignKey, isSingle false.
C13_ThroughQueryFiltersOnJunction ==
  RelationType = "hasManyThrough" =>
    \A c \in 1..Len(calls) :
      LET relation == Relation(relationName)
          config == calls[c].config
      IN /\ config.query.from = relation.target
         /\ config.query.joins =
              <<[table |-> relation.through,
                 on |-> <<Qualified(relation.target, relation.throughPrimaryKey),
                          Qualified(relation.through, relation.throughForeignKey)>>]>>
         /\ config.query.where =
              InFilter(Qualified(relation.through, relation.foreignKey), Len(GivenKeys(c)))
         /\ config.query.values = GivenKeys(c)
         /\ config.batchKey = relation.foreignKey
         /\ config.isSingle = FALSE

\* C14: the batch query of belongsTo selects from the target filtered by
\* primaryKey IN keys, with batchKey primaryKey and isSingle true; hasOne
\* filters by foreignKey IN keys with batchKey foreignKey and isSingle true;
\* hasMany is as hasOne with isSingle false; the parameter values are exactly
\* the given keys.
C14_DirectRelationQueries ==
  RelationType \in {"belongsTo", "hasOne", "hasMany"} =>
    \A c \in 1..Len(calls) :
      LET relation == Relation(relationName)
          config == calls[c].config
          column == IF relation.type = "belongsTo"
                    THEN relation.primaryKey ELSE relation.foreignKey
      IN /\ config.query.from = relation.target
         /\ config.query.joins = <<>>
         /\ config.query.where = InFilter(Col(column), Len(GivenKeys(c)))
         /\ config.query.values = GivenKeys(c)
         /\ config.batchKey = column
         /\ config.isSingle = (relation.type # "hasMany")

\* a belongsTo batch query was generated for the keys l1 and l2
C14_Witness ==
  /\ RelationType = "belongsTo"
  /\ \E c \in 1..Len(calls) :
       /\ calls[c].config.query.values = <<S("l1"), S("l2")>>
       /\ calls[c].config.batchKey = "id"

\* the executor calls the i-th instance made for the batch of its p-th load
InstanceCallsFor(i, p) ==
  {c \in 1..Len(loaders[i].calls) : loaders[i].calls[c].batch = loaders[i].promises[p].batch}

\* C15: loader instances share no buffer and no cache, whether they are for
\* different relations or for the same one: on every instance the first
\* load of a key misses the cache whatever the other instances hold, a cache
\* hit is served by an earlier load of the same instance, every load is
\* enqueued in a batch of its own instance, and every dispatched batch with
\* keys has one executor call of its instance, for that batch's keys.
C15_InstancesShareNothing ==
  \A i \in 1..Len(loaders) :
    LET L == loaders[i]
    IN /\ \A p \in 1..Len(L.promises) :
            LET q == L.promises[p]
            IN /\ (\A r \in 1..(p - 1) : String(L.promises[r].key) # String(q.key))
                    => q.cached = 0
               /\ q.cached # 0 =>
                    /\ q.cached < p
                    /\ String(L.promises[q.cached].key) = String(q.key)
               /\ q.batch \in 1..Len(L.batches)
               /\ q.cached = 0 =>
                    /\ \E k \in 1..Len(L.batches[q.batch].keys) :
                         L.batches[q.batch].keys[k] = q.key
                    /\ L.batches[q.batch].hasDispatched =>
                         Cardinality(InstanceCallsFor(i, p)) = 1
       /\ \A c \in 1..Len(L.calls) :
            /\ L.calls[c].keys = L.batches[L.calls[c].batch].keys
            /\ L.calls[c].config = batchConfig(L.relationName, L.calls[c].keys)

\* two instances for the same relation, each asked for l1 and each resolved
\* by an executor call of its own
C15_Witness ==
  \E i, j \in 1..Len(loaders) :
    /\ i # j
    /\ loaders[i].relationName = loaders[j].relationName
    /\ Len(loaders[i].promises) = 1 /\ Len(loaders[j].promises) = 1
    /\ loaders[i].promises[1].key = S("l1") /\ loaders[j].promises[1].key = S("l1")
    /\ loaders[i].promises[1].st = "fulfilled" /\ loaders[j].promises[1].st = "fulfilled"
    /\ Len(loaders[i].calls) = 1 /\ Len(loaders[j].calls) = 1

\* the calls made since the last clearModelRegistry
SinceLastClear ==
  LET clears == {i \in 1..Len(registryLog) : registryLog[i].op = "clearModelRegistry"}
      from == IF clears = {} THEN 1
              ELSE 1 + CHOOSE i \in clears : \A j \in clears : j <= i
  IN SubSeq(registryLog, from, Len(registryLog))

\* what the most recent defineModel(name) since the last clear returned
LastDefined(name) ==
  LET log == SinceLastClear
      defs == {i \in 1..Len(log) : log[i].name = name}
  IN IF defs = {} THEN Undefined
     ELSE log[CHOOSE i \in defs : \A j \in defs : j <= i].returned

\* C16: after any sequence of defineModel and clearModelRegistry calls,
\* getModel(name) is the very object the most recent defineModel(name) since
\* the last clear returned (last write wins), undefined when there is none,
\* and undefined for every name right after a clear; the object carries the
\* name and the primary key given, "id" when omitted.
C16_GetModelLastDefined ==
  /\ \A name \in ModelNames \cup {"NonExistent"} : getModel(name) = LastDefined(name)
  /\ \A ref \in 1..Len(models) : models[ref].primaryKey \in {"id", "uuid"}
  /\ \A name \in DOMAIN modelRegistry : models[modelRegistry[name]].name = name

\* League defined twice: getModel gives the second object, not the first
C16_Witness ==
  /\ Len(registryLog) >= 2
  /\ registryLog[1].op = "defineModel" /\ registryLog[1].name = "League"
  /\ registryLog[2].op = "defineModel" /\ registryLog[2].name = "League"
  /\ getModel("League") = registryLog[2].returned
  /\ getModel("League") # registryLog[1].returned
  /\ getModel("Post") = Undefined

\* the keys of the relation map of a composer's model
RelationMapKeys(c) == ModelOf(composers[c].model).relations.keys

\* an include(relation) call that throws RelationNotFoundError at once and
\* changes nothing: no include tracked, no query built, no callback called
IncludeThrows(c, relation, queryCallback) ==
  Include(c, relation, queryCallback) =>
    /\ thrown' = "RelationNotFoundError"
    /\ arrays' = arrays
    /\ composers' = composers
    /\ cbCalls' = cbCalls
    /\ queryRuns' = queryRuns

\* C12: include(name) throws RelationNotFoundError at call time for every
\* name that is not a key of the model's relation map, also when the model
\* declares no relations, before any query is built, and leaves the tracked
\* includes as they were.
C12_IncludeThrowsForUnknown ==
  [][\A c \in 1..Len(composers) : \A relation \in IncludeNames :
       \A queryCallback \in Callbacks :
         relation \notin RelationMapKeys(c) => IncludeThrows(c, relation, queryCallback)]_vars

\* the calls of the callback of the i-th include made by the r-th
\* getIncludeQueries()
CallbackCalls(r, i) ==
  {k \in 1..Len(cbCalls) : cbCalls[k].run = r /\ cbCalls[k].index = i}

\* every getIncludeQueries() called the callback of each include that has
\* one once, on a new QueryComposer for the relation's target table that no
\* caller holds and no other callback call was given
CallbacksOnFreshSubQueries ==
  /\ \A r \in 1..Len(queryRuns) : \A i \in 1..Len(includeLog[queryRuns[r].composer]) :
       /\ Cardinality(CallbackCalls(r, i)) <= 1
       /\ queryRuns[r].thrown = "none" /\ i <= Len(queryRuns[r].items) =>
            Cardinality(CallbackCalls(r, i)) =
              IF IncludesOf(Heap, queryRuns[r].composer)[i].query = "undefined" THEN 0 ELSE 1
  /\ \A k \in 1..Len(cbCalls) :
       LET sub == composers[cbCalls[k].subquery]
           inc == IncludesOf(Heap, cbCalls[k].composer)[cbCalls[k].index]
       IN /\ cbCalls[k].callback = inc.query
          /\ sub.owner = "callback"
          /\ sub.kind = "QueryComposer"
          /\ sub.qc.table = inc.config.target
          /\ \A d \in 1..Len(composers) :
               d # cbCalls[k].subquery => composers[d].conditions # sub.conditions
          /\ \A j \in 1..Len(cbCalls) :
               j # k => cbCalls[j].subquery # cbCalls[k].subquery

\* include() calls no callback and builds no query; getIncludeQueries()
\* leaves the query and the includes of every composer of the caller as
\* they were
CallbacksDeferred ==
  /\ \A c \in 1..Len(composers) : \A relation \in IncludeNames :
       \A queryCallback \in Callbacks :
         Include(c, relation, queryCallback) =>
           cbCalls' = cbCalls /\ Len(composers') = Len(composers)
  /\ \A c \in 1..Len(composers) :
       GetIncludeQueries(c) =>
         \A d \in CallerComposers :
           /\ ComposerQuery(Heap', d) = ComposerQuery(Heap, d)
           /\ IncludesOf(Heap', d) = IncludesOf(Heap, d)

\* C17: include(relation, callback) stores the callback without calling it;
\* the callback is called once per getIncludeQueries(), on a new sub-query
\* for the relation's target table that is shared neither with the parent
\* composer nor with other includes, so the parent's own query stays as it
\* was.
C17_CallbackStoredThenApplied ==
  []CallbacksOnFreshSubQueries /\ [][CallbacksDeferred]_vars

\* a composer filtered on status with an include filtered by a callback:
\* after getIncludeQueries() the include query carries the callback's
\* parameter and the composer's query its own
C17_Witness ==
  /\ Len(queryRuns) = 1 /\ queryRuns[1].thrown = "none"
  /\ Len(cbCalls) = 1 /\ cbCalls[1].callback = "whereId"
  /\ queryRuns[1].items[cbCalls[1].index].query.values = <<S("x")>>
  /\ ComposerQuery(Heap, queryRuns[1].composer).values = <<S("active")>>

\* a list of tracked includes as the include() calls that made it
AsLogged(list) ==
  [i \in 1..Len(list) |-> [relation |-> list[i].relation, query |-> list[i].query]]

\* every model composer tracks one include per successful include() call,
\* in call order
TracksIncludeCalls ==
  \A c \in ModelComposers : AsLogged(IncludesOf(Heap, c)) = includeLog[c]

\* getIncludes() returns the tracked includes in a list of its own, and
\* getIncludeQueries() one query per tracked include, in order
ReturnsTrackedIncludes ==
  \A c \in 1..Len(composers) :
    /\ GetIncludes(c) =>
         /\ AsLogged(arrays'[held'[Len(held')]]) = includeLog[c]
         /\ IncludesOf(Heap', c) = IncludesOf(Heap, c)
    /\ GetIncludeQueries(c) /\ thrown' = "none" =>
         LET items == queryRuns'[Len(queryRuns')].items
         IN [i \in 1..Len(items) |-> items[i].relation] =
              [i \in 1..Len(includeLog[c]) |-> includeLog[c][i].relation]

\* C18: getIncludes() returns a copy: whatever the caller adds to, removes
\* from or reorders in a returned list, the composer keeps one entry per
\* successful include() call in call order, and later getIncludes() and
\* getIncludeQueries() calls return exactly those.
C18_GetIncludesReturnsCopy ==
  []TracksIncludeCalls /\ [][ReturnsTrackedIncludes]_vars

\* the caller reversed the list of a composer with two includes; the
\* composer still holds them in call order and getIncludeQueries() gave
\* them in that order
C18_Witness ==
  /\ Len(held) = 1 /\ Len(queryRuns) = 1
  /\ LET c == queryRuns[1].composer
         live == IncludesOf(Heap, c)
     IN /\ Len(live) = 2
        /\ live[1].relation # live[2].relation
        /\ arrays[held[1]] = <<live[2], live[1]>>
        /\ AsLogged(live) = includeLog[c]
        /\ queryRuns[1].items[1].relation = live[1].relation
        /\ queryRuns[1].items[2].relation = live[2].relation

\* the other composers of the caller keep their query and their includes
OthersUntouched(c) ==
  \A d \in CallerComposers :
    d # c =>
      /\ ComposerQuery(Heap', d) = ComposerQuery(Heap, d)
      /\ IncludesOf(Heap', d) = IncludesOf(Heap, d)

\* clone() gives a composer of the same kind with the same query and the
\* same includes and leaves the original as it was; include() and where()
\* on one composer leave every other composer as it was
ClonesIndependent ==
  \A c \in 1..Len(composers) :
    /\ Clone(c) =>
         LET d == Len(composers')
         IN /\ d = Len(composers) + 1
            /\ composers'[d].kind = composers[c].kind
            /\ ComposerQuery(Heap', d) = ComposerQuery(Heap, c)
            /\ IncludesOf(Heap', d) = IncludesOf(Heap, c)
            /\ ComposerQuery(Heap', c) = ComposerQuery(Heap, c)
            /\ IncludesOf(Heap', c) = IncludesOf(Heap, c)
            /\ OthersUntouched(c)
    /\ \A relation \in CopiedNames : \A queryCallback \in CopiedCallbacks :
         Include(c, relation, queryCallback) => OthersUntouched(c)
    /\ \A column \in WhereColumns : Where(c, column) => OthersUntouched(c)

\* C19: clone() of a QueryComposer or a ModelQueryComposer generates the
\* same query and (model composer) holds the same includes in the same
\* order as the original at clone time; afterwards include(), where() on the
\* clone do not change the original, nor those on the original the clone.
C19_CloneIndependent == [][ClonesIndependent]_vars

\* a model composer cloned with one include: then the clone got a second
\* include and the original a condition, and neither shows in the other
C19_Witness ==
  \E c, d \in ModelComposers :
    /\ composers[d].clonedFrom = c
    /\ Len(IncludesOf(Heap, c)) = 1
    /\ Len(IncludesOf(Heap, d)) = 2
    /\ IncludesOf(Heap, d)[1] = IncludesOf(Heap, c)[1]
    /\ ComposerQuery(Heap, c).values = <<S("active")>>
    /\ ComposerQuery(Heap, d).values = <<>>

\* C20: a filter callback may call include() on the sub-query it is given,
\* and that produces nested entries on the include the callback belongs to:
\* once such a callback was applied, the call went through and the
\* include's nested list is not empty.
C20_NestedIncludesTracked ==
  \A k \in 1..Len(cbCalls) :
    cbCalls[k].callback = "includeNested" =>
      /\ queryRuns[cbCalls[k].run].thrown = "none"
      /\ IncludesOf(Heap, cbCalls[k].composer)[cbCalls[k].index].nested # <<>>

\* the executor call of loadRelation's batch resolved
RelationRowsLoaded == lr.active /\ Len(calls) = 1 /\ calls[1].st = "resolved"

\* C21: for belongsTo and hasOne, the relation value loadRelation assigns to
\* a parent is the first row of the executor result, in result order, whose
\* batch-key column is the parent's key, also when several rows match; it
\* is null when no row matches; the call does not reject.
C21_SingleTakesFirstRow ==
  RelationType \in {"belongsTo", "hasOne"} /\ RelationRowsLoaded =>
    /\ LoadRelationPromise.st = "fulfilled"
    /\ \A i \in 1..Len(lr.records) :
         LET matching == RowsOfKey(calls[1].results, promises[i].key)
         IN LoadRelationPromise.value[i][relationName] =
              IF matching = <<>> THEN [t |-> "null", rows |-> <<>>]
              ELSE [t |-> "object", rows |-> <<matching[1]>>]

\* a hasOne relation loaded from a result with two rows for the key l1: the
\* parent got the first of them
C21_Witness ==
  /\ RelationType = "hasOne" /\ RelationRowsLoaded
  /\ \E i \in 1..Len(lr.records) :
       LET matching == RowsOfKey(calls[1].results, promises[i].key)
       IN /\ Len(matching) = 2
          /\ matching[1] # matching[2]
          /\ LoadRelationPromise.value[i][relationName].rows = <<matching[1]>>

\* the items of a list whose key column holds k, in list order
ItemsOfKey(items, key, k) ==
  LET Has(item) == item[key] = k
  IN SelectSeq(items, Has)

\* C23: groupByKey partitions its input: the buckets are those of the key
\* values that occur, each bucket holds exactly the input rows with its key
\* value, as often as they occur and in input order, so that every row is in
\* one bucket once and no bucket is empty; an empty input gives an empty
\* map; the input list is as it was.
C23_GroupByKeyPartitions ==
  group.done =>
    /\ DOMAIN group.result = {group.given[i][group.key] : i \in 1..Len(group.given)}
    /\ \A k \in DOMAIN group.result :
         /\ group.result[k] = ItemsOfKey(group.given, group.key, k)
         /\ group.result[k] # <<>>
    /\ group.given = <<>> => group.result = EmptyMap
    /\ group.items = group.given

\* three rows grouped by id, two of them the same row of l1 around a row
\* whose id is the number 1
C23_Witness ==
  /\ group.done
  /\ group.key = "id"
  /\ Len(group.given) = 3
  /\ group.given[1] = group.given[3]
  /\ group.given[1].id = S("l1")
  /\ group.given[2].id = N("1")
  /\ Len(group.result[S("l1")]) = 2
  /\ group.result[N("1")] = <<group.given[2]>>

\* the loads that enqueued a key, as opposed to those served by the cache
Misses == {p \in 1..Len(promises) : promises[p].cached = 0}

TimesAsked(k) ==
  Cardinality({<<c, i>> \in (1..Len(calls)) \X (1..MaxLoads) :
                 i <= Len(calls[c].keys) /\ String(calls[c].keys[i]) = String(k)})

\* a load() of k that enqueued the key and whose executor call is in flight
InFlight(p, k) ==
  /\ p \in Misses
  /\ String(promises[p].key) = String(k)
  /\ \E c \in ExecutorCallsOf(promises[p].batch) : calls[c].st = "pending"

\* while no call naming k has failed the executor is asked for k at most
\* once, and a load served by the cache is in no batch's keys and settles as
\* the load that enqueued the key
AskedOncePerKey ==
  /\ \A k \in LoadKeys :
       (\A c \in CallsNaming(k) : calls[c].st # "rejected") => TimesAsked(k) <= 1
  /\ \A q \in 1..Len(promises) :
       promises[q].cached # 0 =>
         LET p == promises[q].cached
         IN /\ String(promises[p].key) = String(promises[q].key)
            /\ \A b \in 1..Len(batches) : \A i \in 1..Len(batches[b].callbacks) :
                 batches[b].callbacks[i] # q
            /\ ServingCalls(q) = ExecutorCallsOf(promises[p].batch)
            /\ Outcome(q).st # "pending" =>
                 /\ Outcome(q).st = promises[p].st
                 /\ Outcome(q).value = promises[p].value
                 /\ Outcome(q).reason = promises[p].reason

\* a load(k) made while a call for k is in flight takes the cached promise:
\* no executor call is made, and no key is added to a batch
LoadWhileInFlight ==
  \A k \in LoadKeys : \A p \in 1..Len(promises) :
    InFlight(p, k) /\ Load(k) =>
      LET q == Len(promises')
      IN /\ promises'[q].cached = p
         /\ promises'[q].turn > promises[p].turn
         /\ calls' = calls
         /\ \A b \in 1..Len(batches') :
              batches'[b].keys = IF b <= Len(batches) THEN batches[b].keys ELSE <<>>

\* C27: on one loader the executor is asked for a key at most once as long
\* as no batch containing the key has failed; a load(k) made in a later turn
\* while a batch containing k is in flight causes no second executor call
\* for k and settles with the outcome of the earlier batch for k.
C27_KeyAskedOnce == []AskedOncePerKey /\ [][LoadWhileInFlight]_vars

\* l1 loaded in the first turn, and again in the second turn while the
\* first call is in flight: still one call, and the second load waits for it
C27_Witness ==
  \E p, q \in 1..Len(promises) :
    /\ InFlight(p, S("l1"))
    /\ promises[q].cached = p
    /\ promises[q].turn = 2 /\ promises[p].turn = 1
    /\ promises[q].linked
    /\ Outcome(q).st = "pending"
    /\ Len(calls) = 1

\* the executor calls a load() waits for: the call of the batch it was made
\* in, which runs the resolvers of the batch's cache hits when it settles,
\* and the call of the batch that enqueued its key
AwaitedCalls(p) == ExecutorCallsOf(promises[p].batch) \cup ServingCalls(p)

WaitsForCall(p) == \E c \in AwaitedCalls(p) : calls[c].st = "pending"

Settled(p) == Outcome(p).st # "pending"

\* a load() is pending as long as a call it waits for is pending, and is
\* settled once its batch is dispatched and no call it waits for is pending
SettlesWithItsCalls ==
  \A p \in 1..Len(promises) :
    /\ WaitsForCall(p) => ~Settled(p)
    /\ batches[promises[p].batch].hasDispatched /\ ~WaitsForCall(p) => Settled(p)

\* C25: every promise of load() and of loadMany() settles provided the
\* executor calls it waits for settle: the call of the batch it was made in
\* and, for a load served by the cache, the call of the batch that enqueued
\* its key.  Whatever happens, a load comes to be settled or waiting for a
\* pending call, and a loadMany() comes to be settled or to hold a load that
\* waits for one; while a call is pending the loads waiting for it are
\* pending, with no timeout: these are the loads of the call's batch and the
\* later loads of its keys.
C25_SettlesWhenCallsSettle ==
  /\ []SettlesWithItsCalls
  /\ \A p \in 1..MaxLoads :
       (p <= Len(promises)) ~> (p <= Len(promises) /\ (Settled(p) \/ WaitsForCall(p)))
  /\ \A m \in 1..MaxLoads :
       (m <= Len(manyCalls)) ~>
         (m <= Len(manyCalls) /\
            (LoadManySettled(m) \/ \E i \in 1..Len(manyCalls[m]) : WaitsForCall(manyCalls[m][i])))

\* l1 is in flight; a later turn loads l1 again, from the cache, together
\* with l2; the call for l2 has resolved and the second load of l1 still
\* waits for the first call
C25_Witness ==
  \E p, q \in 1..Len(promises) :
    /\ promises[q].cached = p
    /\ promises[q].batch # promises[p].batch
    /\ \E c \in ExecutorCallsOf(promises[q].batch) : calls[c].st = "resolved"
    /\ \E c \in ExecutorCallsOf(promises[p].batch) : calls[c].st = "pending"
    /\ promises[q].linked
    /\ ~Settled(q)

\* the call of the batch a load() was made in
OwnCallPending(p) == \E c \in ExecutorCallsOf(promises[p].batch) : calls[c].st = "pending"

\* C25 as stated: a promise settles provided the executor call of its batch
\* settles, and when a call never settles only the promises of its batch
\* stay pending: a load comes to be settled or to have the call of its own
\* batch pending, and a load whose batch is dispatched and whose batch's
\* call is not pending is settled.
C25_AsStated ==
  /\ \A p \in 1..MaxLoads :
       (p <= Len(promises)) ~> (p <= Len(promises) /\ (Settled(p) \/ OwnCallPending(p)))
  /\ [](\A p \in 1..Len(promises) :
          batches[promises[p].batch].hasDispatched /\ ~OwnCallPending(p) => Settled(p))

\* the entries of a filter object that where() looks at (their value is not
\* undefined) and whose column is not whitelisted
Unlisted(qc, filters) ==
  {i \in 1..Len(filters) : /\ filters[i].value # UndefinedValue
                           /\ ~validateColumn(qc, Col(filters[i].key[1]))}

\* a filter object without the entries of unlisted columns
Listed(qc, filters) ==
  LET Keep(entry) == validateColumn(qc, Col(entry.key[1]))
  IN SelectSeq(filters, Keep)

\* the columns a query filters on, its OR groups included
FilteredColumns(query) ==
  {query.where[i].column : i \in 1..Len(query.where)}
    \cup {query.not[i].column : i \in 1..Len(query.not)}
    \cup UNION {{query.or[g][i].column : i \in 1..Len(query.or[g])} : g \in 1..Len(query.or)}

\* where() with an entry of an unlisted column: a strict composer throws; a
\* non-strict one does not, and its query is the one where() gives without
\* that entry: no condition on the column and no value of the entry
WhereWithUnlistedColumn ==
  \A c \in 1..Len(fq.qcs) : \A filters \in Filters :
    WhereFilters(c, filters) /\ Unlisted(fq.qcs[c], filters) # {} =>
      IF fq.qcs[c].strict
      THEN fq'.thrown \in {"InvalidColumnError", "InvalidOperatorError"}
      ELSE /\ fq'.thrown = "none"
           /\ toParam(fq'.qcs[c]) =
                toParam(whereFilters(fq.qcs[c], Listed(fq.qcs[c], filters)).qc)
           /\ \A i \in Unlisted(fq.qcs[c], filters) :
                /\ Col(filters[i].key[1]) \notin FilteredColumns(toParam(fq'.qcs[c]))
                /\ \A j \in 1..Len(toParam(fq'.qcs[c]).values) :
                     toParam(fq'.qcs[c]).values[j] # filters[i].value
           /\ Len(toParam(fq'.qcs[c]).values) <=
                Len(toParam(fq.qcs[c]).values) + Len(filters) - Cardinality(Unlisted(fq.qcs[c], filters))

\* C22: where() given a column that is not in the whitelist throws on a
\* strict composer; on a non-strict composer it does not throw and skips the
\* filter: the query gets no condition on the column and no parameter value
\* for it.
C22_UnlistedColumn == [][WhereWithUnlistedColumn]_vars

\* where({bogus: 'value', status: 'active'}) on the non-strict composer,
\* whose query has the status condition alone, then where({bogus: 'value'})
\* on the strict one, which has thrown
C22_Witness ==
  /\ fq.log = <<[op |-> "where", c |-> 2, thrown |-> "none",
                 entries |-> <<[key |-> <<"bogus">>, value |-> S("value")],
                               [key |-> <<"status">>, value |-> S("active")]>>],
                [op |-> "where", c |-> 1, thrown |-> "InvalidColumnError",
                 entries |-> <<[key |-> <<"bogus">>, value |-> S("value")]>>]>>
  /\ fq.thrown = "InvalidColumnError"
  /\ toParam(fq.qcs[1]).values = <<>>
  /\ toParam(fq.qcs[2]).values = <<S("active")>>
  /\ FilteredColumns(toParam(fq.qcs[2])) = {Col("status")}

\* a call of where(), or() or not() that throws leaves the queries of the
\* composers as they were
ThrowLeavesQueries ==
  fq'.log # fq.log /\ fq'.thrown \in {"InvalidColumnError", "InvalidOperatorError"} =>
    \A c \in 1..Len(fq.qcs) : toParam(fq'.qcs[c]) = toParam(fq.qcs[c])

\* C30: on a strict composer a where(), or() or not() call that throws
\* InvalidColumnError or InvalidOperatorError leaves the composer unchanged:
\* the queries generated afterwards hold no condition of the failing call's
\* filter object, the valid entries before the invalid one included.
C30_ThrowLeavesComposer == [][ThrowLeavesQueries]_vars

\* an or() call that throws leaves the queries as they were: its conditions
\* are collected in a local list
OrThrowLeavesQueries ==
  fq'.log # fq.log /\ fq'.log[Len(fq'.log)].op = "or" => ThrowLeavesQueries

OrCallsAtomic == [][OrThrowLeavesQueries]_vars

\* the key-field value of the i-th parent record
KeyFieldValue(i) == Get(lr.records[i], keyField(Model, relationName))

\* C26: loadRelation attaches to each parent record the rows of the executor
\* result whose batch-key column value equals the parent's key-field value,
\* for a string and for a number alike: a parent with id 1 gets the rows
\* with league_id 1.
C26_NumericKeysMatch ==
  lr.active /\ RelationRowsLoaded =>
    \A i \in 1..Len(lr.records) :
      KeyFieldValue(i).t \in {"string", "number"} =>
        LoadRelationPromise.value[i][relationName] =
          RelationValue(RelationType, RowsOfKey(calls[1].results, KeyFieldValue(i)))

\* the same for the parents whose key field holds a string
StringKeysMatch ==
  lr.active /\ RelationRowsLoaded =>
    \A i \in 1..Len(lr.records) :
      KeyFieldValue(i).t = "string" =>
        LoadRelationPromise.value[i][relationName] =
          RelationValue(RelationType, RowsOfKey(calls[1].results, KeyFieldValue(i)))

\* C28: every key loadRelation sends to the executor is the key-field value
\* of a parent record, in its string form; a record whose key field is null
\* or missing sends no key and gets null (belongsTo, hasOne) or [] (hasMany,
\* hasManyThrough).
C28_NoKeyForNull ==
  /\ \A c \in 1..Len(calls) : \A j \in 1..Len(calls[c].config.query.values) :
       \E i \in 1..Len(lr.records) :
         /\ KeyFieldValue(i).t \in {"string", "number"}
         /\ String(KeyFieldValue(i)) = calls[c].config.query.values[j]
  /\ lr.active /\ LoadRelationPromise.st = "fulfilled" =>
       \A i \in 1..Len(lr.records) :
         KeyFieldValue(i).t \in {"null", "undefined"} =>
           LoadRelationPromise.value[i][relationName] = RelationValue(RelationType, <<>>)

\* every key sent is the string form of the key-field value of a parent
\* record, null and undefined included
KeysAreKeyFieldTexts ==
  \A c \in 1..Len(calls) : \A j \in 1..Len(calls[c].config.query.values) :
    \E i \in 1..Len(lr.records) :
      String(KeyFieldValue(i)) = calls[c].config.query.values[j]

\* loadRelation does not touch the list it was given
InputsKept == lr.active => lr'.records = lr.records

\* one output per input, in order, with the input's fields unchanged and the
\* relation field
OneOutputPerInput ==
  lr.active /\ LoadRelationPromise.st = "fulfilled" =>
    /\ Len(LoadRelationPromise.value) = Len(lr.records)
    /\ \A i \in 1..Len(lr.records) :
         LET out == LoadRelationPromise.value[i]
         IN /\ DOMAIN out = DOMAIN lr.records[i] \cup {relationName}
            /\ \A f \in DOMAIN lr.records[i] \ {relationName} : out[f] = lr.records[i][f]
            /\ out[relationName] = RelationValue(RelationType, Outcome(i).value)

====
